---- MODULE Spec2Model ----
(***************************************************************************)
(* Model of the sales-call analysis pipeline of ai-sales-analyzer:         *)
(* the request handler and eight-stage orchestration of                    *)
(* src/api/marriage_analyze.py (retrying completion client, per-stage      *)
(* extraction and fallback, deterministic scorer), and the scorers and     *)
(* entry points of src/api/analyze.py and src/enhanced_analyzer.py.        *)
(*                                                                         *)
(* Python values are abstracted as follows.                                *)
(*  - A number read from a JSON payload is a record [t, n]: t = "num"      *)
(*    with n the value (in the unit of its field), t = "nan" for the       *)
(*    float NaN that json.loads accepts, t = "str" for a value that is     *)
(*    not a number, t = "absent" for a missing key.                        *)
(*  - A parsed JSON document is a record with field json = "object" and    *)
(*    f, the map from its top-level keys to the kind of their value, and   *)
(*    v, the values later code reads; or a record with only json = "list"  *)
(*    for a document that is valid JSON but not an object.                 *)
(*  - Probabilities are integers over a fixed denominator (PScale for the  *)
(*    marriage scorer, QScale for the two others).                         *)
(***************************************************************************)
EXTENDS Integers, Sequences, FiniteSets, TLC

\* ------------------------------------------------------------------ bounds
\* Most paths given to process_transcript_batch, and the batch_size it is
\* called with.
MaxFiles == 3
batch_size == 2
\* Most lines of a transcript drawn line by line, most cues of a subtitle
\* file, most text lines of a cue.
MaxLines == 4
MaxCues == 2
MaxTextLines == 2
\* Most whitespace characters around the content of a request.
MaxPadding == 2
\* Largest category score, urgency and intensity the upstream reports
\* (the prompts ask for 1..10; the code does not check it).
MaxReported == 12

\* ------------------------------------------------------- program constants
max_retries == 3
MinContentLen == 100
PScale == 30000
QScale == 5000

\* ----------------------------------------------------------- Python values
Num(k) == [t |-> "num", n |-> k]
NaN == [t |-> "nan", n |-> 0]
NotNum == [t |-> "str", n |-> 0]
Absent == [t |-> "absent", n |-> 0]

\* dict.get(key, default) on a map from keys to values
Get(d, key, default) == IF key \in DOMAIN d THEN d[key] ELSE default

IsDict(p) == p.json = "object"

\* the kind of the value a parsed document holds under key
KindOf(p, key) == IF IsDict(p) THEN Get(p.f, key, "missing") ELSE "nonobject"

StageKeys ==
  << "call_outcome", "discovery_quality", "sales_framework_analysis",
     "psychological_profile", "marriage_coaching_analysis",
     "emotional_journey", "archetype_analysis", "talk_track_improvements" >>

NStages == Len(StageKeys)

SixCategories ==
  { "call_control", "discovery_depth", "empathetic_confrontation",
    "objection_handling", "value_positioning", "closing_strength" }

SevenCategories == SixCategories \cup { "relationship_dynamics_education" }

Archetypes ==
  << "DESPERATE SAVER", "ANALYTICAL RESEARCHER", "SKEPTICAL EVALUATOR",
     "CONSENSUS SEEKER", "HOPEFUL BUILDER" >>

packages == { "MRL", "MRS", "MRP", "MRI" }

\* A JSON document that parses but is not an object (an array, a number, null).
NonObject == [json |-> "list"]


Obj(f, v) == [json |-> "object", f |-> f, v |-> v]

\* a dict literal whose keys all hold a value of one kind
Keys(S, kind) == [k \in S |-> kind]

\* --------------------------------------------------- fallback payloads
\* detect_call_outcome, the dict returned by its except branch
fallback_call_outcome ==
  Obj(Keys({"call_outcome", "why_won_or_lost"}, "string")
        @@ Keys({"confidence"}, "number")
        @@ Keys({"packages_positioned", "key_closing_moments"}, "empty")
        @@ Keys({"package_purchased", "purchase_timestamp"}, "null"),
      [call_outcome |-> "undetermined", package_purchased |-> "none"])

\* detect_discovery_quality, the dict returned by its except branch
fallback_discovery_quality ==
  Obj(Keys({"switching_gears_detected", "four_key_questions",
            "conflict_handling", "discovery_quality_summary"}, "object"),
      [found |-> FALSE, questions_asked_count |-> 0])

get_fallback_sales_framework ==
  Obj(Keys({"framework_scores"}, "object") @@ Keys({"total_score"}, "number")
        @@ Keys({"overall_grade"}, "string"),
      [scores |-> [c \in SixCategories |-> Num(5)],
       total_score |-> 30, overall_grade |-> "C"])

get_fallback_psychological_analysis ==
  Obj(Keys({"big_five_personality", "decision_making_style", "emotional_state",
            "communication_preferences"}, "object"),
      [primary_style |-> "mixed"])

\* a marriage default that reports a desperate client in an urgent situation
get_fallback_marriage_analysis_desperate ==
  Obj(Keys({"marriage_coaching_elements", "marriage_situation_assessment"},
           "object"),
      [urgency_level |-> Num(9), emotional_state |-> "desperate"])

get_fallback_marriage_analysis ==
  Obj(Keys({"marriage_coaching_elements", "marriage_situation_assessment"},
           "object"),
      [urgency_level |-> Num(5), emotional_state |-> "confused"])

\* defined by the source but called by no stage
get_fallback_emotional_journey ==
  Obj(Keys({"emotional_journey_phases"}, "empty")
        @@ Keys({"emotional_patterns", "emotional_coaching_strategy"}, "object"),
      [phases |-> 0, dominant_emotion |-> "neutral"])

\* defined by the source but called by no stage
get_fallback_archetype ==
  Obj(Keys({"primary_archetype", "secondary_archetype"}, "string")
        @@ Keys({"confidence_score"}, "number")
        @@ Keys({"archetype_evidence", "pre_call_validation"}, "object"),
      [primary_archetype |-> "Mixed Profile", confidence_score |-> Num(50),
       secondary_archetype |-> "Hopeful Builder"])

get_fallback_talk_track ==
  Obj(Keys({"talk_track_analysis", "script_drilling_priorities"}, "object"),
      [top_3_scripts_to_master |-> "analysis unavailable"])

\* ------------------------------------------- keyword-based fallbacks
\* The transcript is abstracted to its trimmed length and the set of
\* trigger words that occur in its lower-cased text.
AnyIn(words, content) == (words \cap content.words) # {}

_fallback_keyword_emotional_journey(content) ==
  LET dominant_emotion ==
        IF AnyIn({"desperate", "crisis", "urgent", "falling apart"}, content)
          THEN "desperate"
        ELSE IF AnyIn({"hopeful", "excited", "optimistic"}, content)
          THEN "hopeful"
        ELSE "mixed"
  IN Obj(Keys({"emotional_journey_phases"}, "list")
           @@ Keys({"emotional_patterns"}, "object"),
         [phases |-> 4, dominant_emotion |-> dominant_emotion])

\* Python's None
None == "None"

\* x or y on values that are None or non-empty strings
Or(x, y) == IF x = None THEN y ELSE x

\* extract_participant_names: the names the introduction patterns find, in
\* the order of the patterns; the first is taken for the client, the second
\* for the closer
IntroNames == << << "my name is ann", "Ann" >>, << "this is bob", "Bob" >> >>

extract_participant_names(content) ==
  LET found == SelectSeq(IntroNames, LAMBDA e : e[1] \in content.words)
  IN [client_name |-> IF Len(found) >= 1 THEN found[1][2] ELSE None,
      closer_name |-> IF Len(found) >= 2 THEN found[2][2] ELSE None]

\* call_metadata of the report: a name that was not given is taken from the
\* transcript, a call date that was not given is today's
call_metadata(content, client_name, closer_name, zoom_meeting_id, call_date) ==
  LET extracted_names == extract_participant_names(content)
      extract == client_name = None \/ closer_name = None
  IN [client_name |-> IF extract THEN Or(client_name, extracted_names.client_name)
                      ELSE client_name,
      closer_name |-> IF extract THEN Or(closer_name, extracted_names.closer_name)
                      ELSE closer_name,
      zoom_meeting_id |-> zoom_meeting_id,
      call_date |-> Or(call_date, "today")]

archetype_keywords ==
  [a \in {Archetypes[i] : i \in 1..Len(Archetypes)} |->
     CASE a = "DESPERATE SAVER" ->
            {"urgent", "crisis", "desperate", "emergency", "last chance"}
       [] a = "ANALYTICAL RESEARCHER" ->
            {"statistics", "success rate", "data", "proof", "evidence"}
       [] a = "SKEPTICAL EVALUATOR" ->
            {"scam", "too good", "burned before", "suspicious"}
       [] a = "CONSENSUS SEEKER" ->
            {"my spouse", "my partner", "we need to discuss"}
       [] a = "HOPEFUL BUILDER" ->
            {"excited", "hopeful", "looking forward", "improve"}]

archetype_scores(content) ==
  [a \in DOMAIN archetype_keywords |->
     IF AnyIn(archetype_keywords[a], content) THEN 3 ELSE 0]

\* max(archetype_scores, key=archetype_scores.get): the first key, in the
\* dict's insertion order, that holds the largest score
FirstMax(scores) ==
  LET best == CHOOSE m \in {scores[a] : a \in DOMAIN scores} :
                \A a \in DOMAIN scores : scores[a] <= m
      i == CHOOSE j \in 1..Len(Archetypes) :
             /\ scores[Archetypes[j]] = best
             /\ \A k \in 1..(j - 1) : scores[Archetypes[k]] # best
  IN Archetypes[i]

\* the keyword classifier without its all-zero default
_fallback_keyword_archetype_no_default(content) ==
  LET scores == archetype_scores(content)
      archetype == FirstMax(scores)
  IN Obj(Keys({"primary_archetype", "secondary_archetype"}, "string")
           @@ Keys({"confidence_score"}, "number")
           @@ Keys({"archetype_evidence"}, "object"),
         [primary_archetype |-> archetype, confidence_score |-> Num(70),
          secondary_archetype |-> "Hopeful Builder"])

_fallback_keyword_archetype(content) ==
  LET scores == archetype_scores(content)
      max_score == scores[FirstMax(scores)]
      archetype == IF max_score = 0 THEN "HOPEFUL BUILDER" ELSE FirstMax(scores)
  IN Obj(Keys({"primary_archetype", "secondary_archetype"}, "string")
           @@ Keys({"confidence_score"}, "number")
           @@ Keys({"archetype_evidence"}, "object"),
         [primary_archetype |-> archetype, confidence_score |-> Num(70),
          secondary_archetype |-> "Hopeful Builder"])

\* ------------------------------------------------------ Python arithmetic
\* x > y on floats: every comparison with NaN is false
Gt(x, y) == x.t = "num" /\ y.t = "num" /\ x.n > y.n

\* max(a, b) keeps its first argument unless the second is greater
py_max(a, b) == IF Gt(b, a) THEN b ELSE a

\* min(a, b) keeps its first argument unless the second is smaller
py_min(a, b) == IF Gt(a, b) THEN b ELSE a

\* d.get(key, default) followed by arithmetic raises TypeError on a value
\* that is not a number
Raises(x) == x.t = "str"

\* a .get whose default is zero whatever the caller asked for
OrDefault_zero(x, default) == IF x.t = "absent" THEN Num(0) ELSE x

\* dict.get(key, default) on a number the document may not hold
OrDefault(x, default) == IF x.t = "absent" THEN Num(default) ELSE x

\* a weighted sum of floats: NaN as soon as one term is NaN.  The operands are
\* evaluated once, before the additions, as Python evaluates them.
WeightedSum(terms) ==
  LET Total(operands) ==
        IF \E i \in DOMAIN operands : operands[i][1].t = "nan" THEN NaN
        ELSE LET RECURSIVE Acc(_)
                 Acc(i) == IF i = 0 THEN 0
                           ELSE Acc(i - 1) + operands[i][1].n * operands[i][2]
             IN Num(Acc(Len(operands)))
  IN CHOOSE total \in {Total(operands) : operands \in {terms}} : TRUE

\* value.get(...) on the value stored under key: the value must be a dict;
\* a missing key reads the {} default
Gettable(p, key) == IsDict(p) /\ KindOf(p, key) \in {"object", "missing"}

\* ----------------------------------------------------- deterministic scorer
\* the stage-of-change table without its entries
change_stage_score_flat(emotional_state) == 60

change_stage_score(emotional_state) ==
  CASE emotional_state = "desperate" -> 85
    [] emotional_state = "hopeful" -> 75
    [] emotional_state = "angry" -> 45
    [] emotional_state = "analytical" -> 65
    [] OTHER -> 60

investment_psychology(archetype_name) ==
  CASE archetype_name = "DESPERATE SAVER" -> 9
    [] archetype_name = "HOPEFUL BUILDER" -> 8
    [] archetype_name = "ANALYTICAL RESEARCHER" -> 5
    [] archetype_name = "SKEPTICAL EVALUATOR" -> 3
    [] archetype_name = "CONSENSUS SEEKER" -> 4
    [] OTHER -> 6

\* min(max(success_probability, 0.15), 0.85), over PScale
clamp_marriage(success_probability) ==
  py_min(py_max(success_probability, Num(4500)), Num(25500))

\* a scorer that also adds the seventh category of the framework
ScoredCategories_seven ==
  << "call_control", "discovery_depth", "empathetic_confrontation",
     "objection_handling", "value_positioning", "closing_strength",
     "relationship_dynamics_education" >>

ScoredCategories ==
  << "call_control", "discovery_depth", "empathetic_confrontation",
     "objection_handling", "value_positioning", "closing_strength" >>

\* The result over PScale = 30000:
\*   total/60 * 0.35                 = total * 175 / 30000
\*   urgency/10 * 0.6 * 0.40         = urgency * 720 / 30000
\*   stage/100 * 0.4 * 0.40          = stage * 48 / 30000
\*   investment/10 * 0.15            = investment * 450 / 30000
\*   confidence/100 * 0.10           = confidence * 30 / 30000
calculate_marriage_success_probability(sales_framework, marriage_analysis, archetype) ==
  LET framework_score ==
        IF KindOf(sales_framework, "framework_scores") = "object"
          THEN sales_framework.v.scores ELSE << >>
      score(i) == OrDefault(Get(framework_score, ScoredCategories[i], Absent), 5)
      has_factors ==
        KindOf(marriage_analysis, "marriage_situation_assessment") = "object"
      urgency_level ==
        IF has_factors THEN OrDefault(marriage_analysis.v.urgency_level, 5)
        ELSE Num(5)
      emotional_state ==
        IF has_factors /\ "emotional_state" \in DOMAIN marriage_analysis.v
          THEN marriage_analysis.v.emotional_state ELSE "neutral"
      archetype_name ==
        IF KindOf(archetype, "primary_archetype") = "missing"
          THEN "Mixed Profile" ELSE archetype.v.primary_archetype
      archetype_confidence ==
        IF KindOf(archetype, "confidence_score") = "missing"
          THEN Num(50) ELSE OrDefault(archetype.v.confidence_score, 50)
      raised ==
        \/ ~Gettable(sales_framework, "framework_scores")
        \/ \E i \in 1..Len(ScoredCategories) : Raises(score(i))
        \/ ~Gettable(marriage_analysis, "marriage_situation_assessment")
        \/ Raises(urgency_level)
        \/ ~IsDict(archetype)
        \/ Raises(archetype_confidence)
      success_probability ==
        WeightedSum([i \in 1..Len(ScoredCategories) |-> << score(i), 175 >>]
                    \o << << urgency_level, 720 >>,
                          << Num(change_stage_score(emotional_state)), 48 >>,
                          << Num(investment_psychology(archetype_name)), 450 >>,
                          << archetype_confidence, 30 >> >>)
  IN IF raised THEN Num(12000) ELSE clamp_marriage(success_probability)

\* min(max(success_probability, 0.1), 0.95), over QScale
clamp_success(success_probability) ==
  py_min(py_max(success_probability, Num(500)), Num(4750))

\* ServerlessAnalyzer.calculate_success_probability, over QScale = 5000.  The
\* archetype's confidence_score is a fraction, held here in thousandths:
\*   performance/100 * 0.6        = performance * 30 / 5000
\*   confidence * 0.2             = thousandths * 1 / 5000
\*   min(intensity/10, 1.0) * 0.2 = min(intensity * 100, 1000) / 5000
ServerlessAnalyzer_calculate_success_probability(sales_performance, psychological_profile, archetype) ==
  LET has_assessment == KindOf(sales_performance, "overall_assessment") = "object"
      performance_score ==
        IF has_assessment THEN OrDefault(sales_performance.v.performance_score, 50)
        ELSE Num(50)
      archetype_confidence ==
        IF KindOf(archetype, "confidence_score") = "missing"
          THEN Num(500) ELSE OrDefault(archetype.v.confidence_score, 500)
      has_state == KindOf(psychological_profile, "emotional_state") = "object"
      emotional_intensity ==
        IF has_state THEN OrDefault(psychological_profile.v.intensity, 5)
        ELSE Num(5)
      emotional_factor ==
        py_min(IF emotional_intensity.t = "num"
                 THEN Num(emotional_intensity.n * 100) ELSE emotional_intensity,
               Num(1000))
      raised ==
        \/ ~Gettable(sales_performance, "overall_assessment")
        \/ Raises(performance_score)
        \/ ~IsDict(archetype)
        \/ Raises(archetype_confidence)
        \/ ~Gettable(psychological_profile, "emotional_state")
        \/ Raises(emotional_intensity)
      success_probability ==
        WeightedSum(<< << performance_score, 30 >>, << archetype_confidence, 1 >>,
                       << emotional_factor, 1 >> >>)
  IN IF raised THEN Num(2500) ELSE clamp_success(success_probability)

\* EnhancedSalesAnalyzer.calculate_success_probability, over QScale = 5000:
\*   performance/100 * 0.5                 = performance * 25 / 5000
\*   (motivation - stress + 10)/20 * 0.3   = (motivation - stress + 10) * 75 / 5000
\*   confidence * 0.2                      = thousandths * 1 / 5000
EnhancedSalesAnalyzer_calculate_success_probability(sales_performance, psychological_profile, archetype_analysis) ==
  LET has_assessment == KindOf(sales_performance, "overall_assessment") = "object"
      performance_score ==
        IF has_assessment THEN OrDefault(sales_performance.v.performance_score, 50)
        ELSE Num(50)
      has_stress == KindOf(psychological_profile, "stress_and_motivation") = "object"
      stress_level ==
        IF has_stress THEN OrDefault(psychological_profile.v.stress, 5) ELSE Num(5)
      motivation_level ==
        IF has_stress THEN OrDefault(psychological_profile.v.motivation, 5)
        ELSE Num(5)
      archetype_confidence ==
        IF KindOf(archetype_analysis, "confidence_score") = "missing"
          THEN Num(500) ELSE OrDefault(archetype_analysis.v.confidence_score, 500)
      raised ==
        \/ ~Gettable(sales_performance, "overall_assessment")
        \/ Raises(performance_score)
        \/ ~Gettable(psychological_profile, "stress_and_motivation")
        \/ Raises(stress_level) \/ Raises(motivation_level)
        \/ ~IsDict(archetype_analysis)
        \/ Raises(archetype_confidence)
      success_probability ==
        WeightedSum(<< << performance_score, 25 >>, << motivation_level, 75 >>,
                       << stress_level, 0 - 75 >>, << Num(10), 75 >>,
                       << archetype_confidence, 1 >> >>)
  IN IF raised THEN Num(2500) ELSE clamp_success(success_probability)

\* the urgent tier entered above 0.75 only
determine_coaching_urgency_strict(success_probability) ==
  IF Gt(success_probability, Num(22500))
    THEN [immediate_coaching_needed |-> TRUE, coaching_priority |-> "URGENT",
          recommended_actions |->
            << "Review call recording immediately",
               "Identify specific missed closing opportunities",
               "Schedule coaching session within 24 hours",
               "Prepare follow-up strategy for prospect" >>]
  ELSE IF Gt(success_probability, Num(17999))
    THEN [immediate_coaching_needed |-> FALSE, coaching_priority |-> "STANDARD",
          recommended_actions |->
            << "Include in weekly coaching review",
               "Analyze for skill development opportunities",
               "Note patterns for group coaching sessions" >>]
  ELSE [immediate_coaching_needed |-> FALSE, coaching_priority |-> "LOW",
        recommended_actions |->
          << "Review lead qualification process",
             "Assess if prospect was properly qualified",
             "Focus coaching on discovery and qualification skills" >>]

\* determine_coaching_urgency: thresholds 0.75 and 0.60 over PScale; a NaN
\* probability fails both comparisons and lands in the last branch
determine_coaching_urgency(success_probability) ==
  IF Gt(success_probability, Num(22499))
    THEN [immediate_coaching_needed |-> TRUE, coaching_priority |-> "URGENT",
          recommended_actions |->
            << "Review call recording immediately",
               "Identify specific missed closing opportunities",
               "Schedule coaching session within 24 hours",
               "Prepare follow-up strategy for prospect" >>]
  ELSE IF Gt(success_probability, Num(17999))
    THEN [immediate_coaching_needed |-> FALSE, coaching_priority |-> "STANDARD",
          recommended_actions |->
            << "Include in weekly coaching review",
               "Analyze for skill development opportunities",
               "Note patterns for group coaching sessions" >>]
  ELSE [immediate_coaching_needed |-> FALSE, coaching_priority |-> "LOW",
        recommended_actions |->
          << "Review lead qualification process",
             "Assess if prospect was properly qualified",
             "Focus coaching on discovery and qualification skills" >>]

\* ------------------------------------------------ the transcript normalizer
\* A transcript is the sequence of its lines (content.split('\n')).  A line is
\* blank (empty or whitespace), a line that starts with the WEBVTT marker in
\* either case, a line of digits, a time-range line
\* 'H:MM:SS.mmm --> H:MM:SS.mmm', a line that starts with NOTE, any other
\* text, or a line '[MM:SS] text' the normalizer produced.  Text lines may
\* carry whitespace around them.
BlankLine == [k |-> "blank"]
TextLine(kind, w, pad) == [k |-> kind, w |-> w, pad |-> pad]
MarkerLine == TextLine("marker", "WEBVTT", FALSE)
DigitsLine == TextLine("digits", "42", FALSE)
NoteLine == TextLine("note", "NOTE on the call", FALSE)
TimeRange(start) == [k |-> "time", start |-> start]
Stamped(timestamp, text) == [k |-> "stamped", ts |-> timestamp, text |-> text]

\* line.strip()
strip(line) == IF "pad" \in DOMAIN line THEN [line EXCEPT !.pad = FALSE] ELSE line

\* a cue that forgets the hours of its start time
convert_timestamp_to_simple_minutes_only(timestamp) ==
  << timestamp[2], timestamp[3] >>

\* convert_timestamp_to_simple on << hours, minutes, seconds, millis >>:
\* total minutes and whole seconds
convert_timestamp_to_simple(timestamp) ==
  << timestamp[1] * 60 + timestamp[2], timestamp[3] >>

\* content.strip().upper().startswith('WEBVTT')
starts_with_marker(content) ==
  \E i \in 1..Len(content) :
     /\ content[i].k = "marker"
     /\ \A j \in 1..(i - 1) : content[j].k = "blank"

\* the segment accumulated so far is saved when it has a timestamp and text
flush(st) ==
  IF st.current_timestamp # << >> /\ st.current_text_lines # << >>
    THEN [st EXCEPT !.formatted_lines =
                      Append(@, Stamped(st.current_timestamp,
                                        st.current_text_lines))]
    ELSE st

\* one turn of the loop over the lines
vtt_line(st, raw) ==
  LET line == strip(raw)
  IN CASE line.k \in {"blank", "marker", "digits"} ->
            IF st.current_timestamp # << >> /\ st.current_text_lines # << >>
              THEN [flush(st) EXCEPT !.current_text_lines = << >>]
              ELSE st
       [] line.k = "time" ->
            [flush(st) EXCEPT
               !.current_timestamp = convert_timestamp_to_simple(line.start),
               !.current_text_lines = << >>]
       [] line.k = "note" -> st
       [] OTHER -> [st EXCEPT !.current_text_lines = Append(@, line)]

RECURSIVE vtt_loop(_, _, _)
vtt_loop(st, content, i) ==
  IF i > Len(content) THEN st
  ELSE vtt_loop(vtt_line(st, content[i]), content, i + 1)

\* a normalizer that hands back whatever the loop produced, nothing included
vtt_formatted_empty(content) ==
  LET st == flush(vtt_loop([formatted_lines |-> << >>,
                            current_timestamp |-> << >>,
                            current_text_lines |-> << >>], content, 1))
  IN [text |-> st.formatted_lines, wasTimestamped |-> TRUE]

\* the loop, the last segment, and the fall back to the original content
\* when nothing was produced
vtt_formatted(content) ==
  LET st == flush(vtt_loop([formatted_lines |-> << >>,
                            current_timestamp |-> << >>,
                            current_text_lines |-> << >>], content, 1))
  IN IF st.formatted_lines = << >>
       THEN [text |-> content, wasTimestamped |-> FALSE]
       ELSE [text |-> st.formatted_lines, wasTimestamped |-> TRUE]

\* a normalizer that parses cues whether or not the marker is there
parse_vtt_content_unmarked(content) ==
  vtt_formatted(content)

parse_vtt_content(content) ==
  IF ~starts_with_marker(content)
    THEN [text |-> content, wasTimestamped |-> FALSE]
    ELSE vtt_formatted(content)

\* ------------------------------------------------- upstream response text
\* What the hosted model may answer: a document, possibly wrapped in a code
\* fence (with or without the json tag) and possibly preceded or followed by
\* commentary (commentary that holds no brace).
Garbage == [json |-> "invalid"]

Text(pre, fence, post, doc) == [pre |-> pre, fence |-> fence, post |-> post, doc |-> doc]

Parsed(val) == [ok |-> TRUE, val |-> val]
ParseError == [ok |-> FALSE, val |-> Garbage]

\* replace('```json', '').replace('```', '').strip(), re.search(r'\{.*\}'),
\* json.loads: an object is cut out of whatever surrounds it; any other
\* document parses only when nothing but the fence surrounds it
clean_and_extract(text) ==
  CASE text.doc.json = "object" -> Parsed(text.doc)
    [] text.doc.json = "list" ->
         IF text.pre \/ text.post THEN ParseError ELSE Parsed(text.doc)
    [] OTHER -> ParseError

\* if response_text.startswith('```json'): strip the fences; json.loads
strip_json_fence(text) ==
  LET stripped == text.fence = "json" /\ ~text.pre
      bare == text.fence = "none" /\ ~text.pre
  IN IF (stripped \/ bare) /\ ~text.post /\ text.doc.json # "invalid"
       THEN Parsed(text.doc) ELSE ParseError

\* the outcome of _call_api_with_retry seen by a stage
Returned(text) == [raised |-> FALSE, text |-> text]
Raised == [raised |-> TRUE, text |-> Text(FALSE, "none", FALSE, Garbage)]

With(p, key, kind) == [p EXCEPT !.f = (key :> kind) @@ p.f]

\* ------------------------------------------------------------ the stages
detect_call_outcome(reply) ==
  LET r == clean_and_extract(reply.text)
      result == r.val
  IN IF reply.raised \/ ~r.ok \/ ~IsDict(result) THEN fallback_call_outcome
     ELSE IF result.v.package_purchased \in packages
       THEN With(result, "package_details", "object")
     ELSE result

detect_discovery_quality(reply) ==
  LET r == clean_and_extract(reply.text)
      result == r.val
  IN IF reply.raised \/ ~r.ok \/ ~Gettable(result, "discovery_quality_summary")
       THEN fallback_discovery_quality
     ELSE result

\* analyze_sales_framework builds its prompt before its try block:
\* discovery_quality.get('discovery_quality_summary', {}).get(...) and
\* discovery_quality.get('switching_gears_detected', {}).get('found', False)
sales_framework_prompt_raises(discovery_quality) ==
  /\ ~(IsDict(discovery_quality) /\ DOMAIN discovery_quality.f = {})
  /\ \/ ~Gettable(discovery_quality, "discovery_quality_summary")
     \/ ~Gettable(discovery_quality, "switching_gears_detected")

analyze_sales_framework(reply) ==
  LET r == strip_json_fence(reply.text)
  IN IF reply.raised \/ ~r.ok THEN get_fallback_sales_framework ELSE r.val

\* a stage that falls back to another stage's default
analyze_psychological_profile_wrong_fallback(reply) ==
  LET r == strip_json_fence(reply.text)
  IN IF reply.raised \/ ~r.ok THEN get_fallback_talk_track ELSE r.val

analyze_psychological_profile(reply) ==
  LET r == strip_json_fence(reply.text)
  IN IF reply.raised \/ ~r.ok THEN get_fallback_psychological_analysis ELSE r.val

analyze_marriage_coaching_specifics(reply) ==
  LET r == strip_json_fence(reply.text)
  IN IF reply.raised \/ ~r.ok THEN get_fallback_marriage_analysis ELSE r.val

\* the stage without its validation of the parsed result
analyze_emotional_journey_unvalidated(reply, content) ==
  LET r == clean_and_extract(reply.text)
      result == r.val
  IN IF reply.raised \/ ~r.ok \/ ~IsDict(result)
       THEN _fallback_keyword_emotional_journey(content)
     ELSE result

analyze_emotional_journey(reply, content) ==
  LET r == clean_and_extract(reply.text)
      result == r.val
  IN IF \/ reply.raised \/ ~r.ok \/ ~IsDict(result)
        \/ KindOf(result, "emotional_journey_phases")
             \in {"missing", "null", "empty", "number"}
       THEN _fallback_keyword_emotional_journey(content)
     ELSE result

\* result.setdefault(key, value)
setdefault(p, key, kind, field, value) ==
  IF key \in DOMAIN p.f THEN p
  ELSE [p EXCEPT !.f = (key :> kind) @@ p.f, !.v = (field :> value) @@ p.v]

classify_marriage_archetype(reply, content) ==
  LET r == clean_and_extract(reply.text)
      result == r.val
  IN IF reply.raised \/ ~r.ok \/ ~IsDict(result)
       THEN _fallback_keyword_archetype(content)
     ELSE LET r1 == setdefault(result, "secondary_archetype", "string",
                               "secondary_archetype", "Hopeful Builder")
              r2 == setdefault(r1, "confidence_score", "number",
                               "confidence_score", Num(75))
          IN IF "archetype_evidence" \in DOMAIN r2.f THEN r2
             ELSE With(r2, "archetype_evidence", "object")

\* analyze_talk_track_improvements builds its prompt before its try block:
\* sales_framework.get('framework_scores', {}) and
\* marriage_analysis.get('marriage_coaching_elements', {})
talk_track_prompt_raises(sales_framework, marriage_analysis) ==
  ~IsDict(sales_framework) \/ ~IsDict(marriage_analysis)

analyze_talk_track_improvements(reply) ==
  LET r == strip_json_fence(reply.text)
  IN IF reply.raised \/ ~r.ok THEN get_fallback_talk_track ELSE r.val

\* ------------------------------------- documents the upstream may return
\* One document following each stage's prompt schema, and documents that
\* parse but depart from it.
CallOutcomeDoc ==
  Obj(Keys({"call_outcome", "package_purchased", "purchase_timestamp",
            "why_won_or_lost"}, "string")
        @@ Keys({"confidence"}, "number")
        @@ Keys({"packages_positioned", "key_closing_moments"}, "list")
        @@ Keys({"closing_moment_analysis"}, "object"),
      [call_outcome |-> "won", package_purchased |-> "MRI"])

\* an object without call_outcome
CallOutcomeIncomplete ==
  Obj(Keys({"confidence"}, "number") @@ Keys({"why_won_or_lost"}, "string"),
      [call_outcome |-> "none", package_purchased |-> "none"])

DiscoveryDoc ==
  Obj(Keys({"switching_gears_detected", "four_key_questions",
            "conflict_handling", "discovery_quality_summary"}, "object"),
      [found |-> TRUE, questions_asked_count |-> 3])

\* "switching_gears_detected": null
DiscoveryNullTransition ==
  Obj(Keys({"switching_gears_detected"}, "null")
        @@ Keys({"four_key_questions", "conflict_handling",
                 "discovery_quality_summary"}, "object"),
      [found |-> FALSE, questions_asked_count |-> 3])

\* "discovery_quality_summary": null
DiscoveryNullSummary ==
  Obj(Keys({"discovery_quality_summary"}, "null")
        @@ Keys({"switching_gears_detected", "four_key_questions",
                 "conflict_handling"}, "object"),
      [found |-> TRUE, questions_asked_count |-> 0])

ExampleScores ==
  [c \in SevenCategories |->
     CASE c = "call_control" -> Num(7)
       [] c = "discovery_depth" -> Num(5)
       [] c = "empathetic_confrontation" -> Num(6)
       [] c = "objection_handling" -> Num(4)
       [] c = "value_positioning" -> Num(3)
       [] c = "closing_strength" -> Num(2)
       [] OTHER -> Num(4)]

FrameworkDoc ==
  Obj(Keys({"framework_scores"}, "object") @@ Keys({"total_score"}, "number")
        @@ Keys({"overall_grade"}, "string"),
      [scores |-> ExampleScores, total_score |-> 31, overall_grade |-> "C"])

\* an object without framework_scores
FrameworkIncomplete ==
  Obj(Keys({"total_score"}, "number") @@ Keys({"overall_grade"}, "string"),
      [scores |-> << >>, total_score |-> 31, overall_grade |-> "C"])

PsychologicalDoc ==
  Obj(Keys({"big_five_personality", "decision_making_style", "emotional_state"},
           "object"),
      [primary_style |-> "emotional"])

MarriageDoc ==
  Obj(Keys({"marriage_coaching_elements", "marriage_situation_assessment",
            "coaching_triggers"}, "object"),
      [urgency_level |-> Num(9), emotional_state |-> "desperate"])

EmotionalJourneyDoc ==
  Obj(Keys({"emotional_journey_phases"}, "list")
        @@ Keys({"emotional_patterns"}, "object"),
      [phases |-> 2, dominant_emotion |-> "hopeful"])

\* "emotional_journey_phases": []
EmotionalJourneyEmpty ==
  Obj(Keys({"emotional_journey_phases"}, "empty")
        @@ Keys({"emotional_patterns"}, "object"),
      [phases |-> 0, dominant_emotion |-> "hopeful"])

\* an object without emotional_journey_phases
EmotionalJourneyMissing ==
  Obj(Keys({"emotional_patterns"}, "object"),
      [phases |-> 0, dominant_emotion |-> "hopeful"])

ArchetypeDoc ==
  Obj(Keys({"primary_archetype"}, "string") @@ Keys({"confidence_score"}, "number")
        @@ Keys({"supporting_quotes", "behavioral_indicators"}, "list"),
      [primary_archetype |-> "DESPERATE SAVER", confidence_score |-> Num(85),
       secondary_archetype |-> "none"])

\* an object without primary_archetype and confidence_score
ArchetypeIncomplete ==
  Obj(Keys({"supporting_quotes", "behavioral_indicators"}, "list"),
      [primary_archetype |-> "none", confidence_score |-> Absent,
       secondary_archetype |-> "none"])

TalkTrackDoc ==
  Obj(Keys({"talk_track_analysis", "script_drilling_priorities",
            "marriage_coaching_specialization"}, "object"),
      [top_3_scripts_to_master |-> "scripts"])

\* the document of stage s that follows the prompt's schema
SchemaDoc(s) ==
  CASE s = 1 -> CallOutcomeDoc
    [] s = 2 -> DiscoveryDoc
    [] s = 3 -> FrameworkDoc
    [] s = 4 -> PsychologicalDoc
    [] s = 5 -> MarriageDoc
    [] s = 6 -> EmotionalJourneyDoc
    [] s = 7 -> ArchetypeDoc
    [] s = 8 -> TalkTrackDoc

\* the objects that lack a field of the stage's schema
IncompleteDocs(s) ==
  CASE s = 1 -> {CallOutcomeIncomplete}
    [] s = 2 -> {DiscoveryNullTransition, DiscoveryNullSummary}
    [] s = 3 -> {FrameworkIncomplete}
    [] s = 6 -> {EmotionalJourneyEmpty, EmotionalJourneyMissing}
    [] s = 7 -> {ArchetypeIncomplete}
    [] OTHER -> {}

\* stages for which the model also answers a JSON array
NonObjectStages == {1, 3, 5, 7}

UpstreamDocs(s) ==
  {Garbage, SchemaDoc(s)} \cup IncompleteDocs(s)
    \cup (IF s \in NonObjectStages THEN {NonObject} ELSE {})

\* bare, fenced with and without the json tag, commentary before or after
Wrappers ==
  { << FALSE, "none", FALSE >>, << FALSE, "json", FALSE >>,
    << FALSE, "plain", FALSE >>, << TRUE, "none", FALSE >>,
    << FALSE, "none", TRUE >> }

UpstreamTexts(s) ==
  {Text(w[1], w[2], w[3], doc) : w \in Wrappers, doc \in UpstreamDocs(s)}

\* the ways a scripted upstream dresses the schema's document
Dressed ==
  {"json_fence", "plain_fence", "commentary_before", "commentary_after"}

\* what a scripted upstream answers for a stage: the schema's document, bare,
\* when told "valid"; text that is not JSON when told "invalid"; the schema's
\* document inside a fence or next to commentary when told so; when told
\* "flaky", the schema's document or text that is not JSON, if it does not
\* raise an error instead
MockTexts(s, behaviour) ==
  CASE behaviour = "valid" -> {Text(FALSE, "none", FALSE, SchemaDoc(s))}
    [] behaviour = "invalid" -> {Text(w[1], w[2], w[3], Garbage) : w \in Wrappers}
    [] behaviour = "down" -> {Text(w[1], w[2], w[3], Garbage) : w \in Wrappers}
    [] behaviour = "flaky" ->
         {Text(FALSE, "none", FALSE, doc) :
            doc \in {SchemaDoc(s), Garbage}
                      \cup (IF s = 2 THEN {DiscoveryNullTransition} ELSE {})}
    [] behaviour = "json_fence" -> {Text(FALSE, "json", FALSE, SchemaDoc(s))}
    [] behaviour = "plain_fence" -> {Text(FALSE, "plain", FALSE, SchemaDoc(s))}
    [] behaviour = "commentary_before" -> {Text(TRUE, "none", FALSE, SchemaDoc(s))}
    [] behaviour = "commentary_after" -> {Text(FALSE, "none", TRUE, SchemaDoc(s))}
    [] OTHER -> UpstreamTexts(s)

\* the errors messages.create may raise
TransientFaults == {"rate_limit", "timeout", "server_error", "unexpected"}
Faults == TransientFaults \cup {"client_error"}

\* ------------------------------------------ ServerlessAnalyzer (api/analyze.py)
\* Each stage makes one messages.create call inside a try block, strips a
\* leading json fence, parses, and returns its fallback on any exception.
ServerlessAnalyzer_get_fallback_psychological_analysis ==
  Obj(Keys({"big_five_personality", "decision_making_style", "emotional_state"},
           "object"),
      [intensity |-> Num(5)])

ServerlessAnalyzer_get_fallback_sales_analysis ==
  Obj(Keys({"overall_assessment", "skills_breakdown"}, "object"),
      [performance_score |-> Num(50)])

ServerlessAnalyzer_get_fallback_archetype ==
  Obj(Keys({"primary_archetype", "secondary_archetype", "reasoning"}, "string")
        @@ Keys({"confidence_score"}, "number"),
      [primary_archetype |-> "Mixed Profile", confidence_score |-> Num(500)])

ServerlessAnalyzer_get_fallback_coaching ==
  Obj(Keys({"immediate_action_plan"}, "object"), [follow_up_method |-> "email"])

ServerlessStages == 4

ServerlessFallback(s) ==
  CASE s = 1 -> ServerlessAnalyzer_get_fallback_psychological_analysis
    [] s = 2 -> ServerlessAnalyzer_get_fallback_sales_analysis
    [] s = 3 -> ServerlessAnalyzer_get_fallback_archetype
    [] s = 4 -> ServerlessAnalyzer_get_fallback_coaching

\* analyze_psychological_profile, analyze_sales_performance,
\* classify_archetype and generate_coaching_recommendations share one body
ServerlessAnalyzer_stage(s, reply) ==
  LET r == strip_json_fence(reply.text)
  IN IF reply.raised \/ ~r.ok THEN ServerlessFallback(s) ELSE r.val

\* generate_coaching_recommendations reads its arguments before its try
\* block: archetype.get('primary_archetype', ...) and
\* sales_performance.get('overall_assessment', {}).get('performance_score', 50)
coaching_prompt_raises(sales_performance, archetype) ==
  ~IsDict(archetype) \/ ~Gettable(sales_performance, "overall_assessment")

ServerlessPsychologicalDoc ==
  Obj(Keys({"big_five_personality", "decision_making_style", "emotional_state"},
           "object"),
      [intensity |-> Num(8)])

ServerlessSalesDoc ==
  Obj(Keys({"overall_assessment", "skills_breakdown"}, "object"),
      [performance_score |-> Num(72)])

\* "overall_assessment": null
ServerlessSalesNullAssessment ==
  Obj(Keys({"overall_assessment"}, "null") @@ Keys({"skills_breakdown"}, "object"),
      [performance_score |-> Absent])

ServerlessArchetypeDoc ==
  Obj(Keys({"primary_archetype", "secondary_archetype", "reasoning"}, "string")
        @@ Keys({"confidence_score"}, "number")
        @@ Keys({"key_characteristics"}, "list"),
      [primary_archetype |-> "DESPERATE SAVER", confidence_score |-> Num(850)])

CoachingDoc ==
  Obj(Keys({"immediate_action_plan", "communication_strategy"}, "object"),
      [follow_up_method |-> "call"])

ServerlessDocs(s) ==
  CASE s = 1 -> {Garbage, ServerlessPsychologicalDoc, NonObject}
    [] s = 2 -> {Garbage, ServerlessSalesDoc, ServerlessSalesNullAssessment, NonObject}
    [] s = 3 -> {Garbage, ServerlessArchetypeDoc, NonObject}
    [] s = 4 -> {Garbage, CoachingDoc}

\* what a stage of ServerlessAnalyzer gets from messages.create: an exception
\* or a text
ServerlessReplies(s) ==
  {Raised} \cup {Returned(Text(w[1], w[2], w[3], doc)) :
                   w \in Wrappers, doc \in ServerlessDocs(s)}

\* ------------------------------- EnhancedSalesAnalyzer (enhanced_analyzer.py)
BigFive == {"openness", "conscientiousness", "extraversion", "agreeableness",
            "neuroticism"}

get_default_psychological_profile ==
  Obj(Keys({"big_five_personality", "emotional_intelligence",
            "decision_making_profile"}, "object"),
      [big_five |-> [t \in BigFive |-> 50], primary_style |-> "mixed",
       stress |-> Absent, motivation |-> Absent])

get_default_sales_analysis ==
  Obj(Keys({"overall_assessment", "sales_skills_breakdown"}, "object"),
      [performance_score |-> Num(50), skills |-> 6])

\* "emotional_timeline": []
get_default_emotional_analysis ==
  Obj(Keys({"emotional_timeline"}, "empty")
        @@ Keys({"overall_emotional_profile"}, "object"),
      [intensity |-> 5, hope |-> 5, skepticism_areas |-> 0])

get_default_communication_analysis ==
  Obj(Keys({"communication_style"}, "object"), [pace_preference |-> "moderate"])

get_default_coaching_recommendations ==
  Obj(Keys({"immediate_action_plan"}, "object"), [follow_up_method |-> "email"])

\* the four model-based stages, the classifier, the coaching stage
EnhancedStages == 6

EnhancedDefault(s) ==
  CASE s = 1 -> get_default_psychological_profile
    [] s = 2 -> get_default_sales_analysis
    [] s = 3 -> get_default_emotional_analysis
    [] s = 4 -> get_default_communication_analysis
    [] s = 6 -> get_default_coaching_recommendations

\* analyze_psychological_profile, analyze_sales_performance,
\* analyze_emotional_journey, analyze_communication_patterns and the try
\* block of generate_coaching_recommendations share one body
EnhancedSalesAnalyzer_stage(s, reply) ==
  LET r == strip_json_fence(reply.text)
  IN IF reply.raised \/ ~r.ok THEN EnhancedDefault(s) ELSE r.val

EnhancedArchetypeKeys ==
  << "analytical_researcher", "desperate_saver", "hopeful_builder",
     "skeptical_evaluator", "consensus_seeker" >>

EnhancedArchetypeName(key) ==
  CASE key = "analytical_researcher" -> "Analytical Researcher"
    [] key = "desperate_saver" -> "Desperate Saver"
    [] key = "hopeful_builder" -> "Hopeful Builder"
    [] key = "skeptical_evaluator" -> "Skeptical Evaluator"
    [] key = "consensus_seeker" -> "Consensus Seeker"

Min(a, b) == IF b < a THEN b ELSE a

\* the index of the first greatest score among the indices in S, as
\* max(keys, key=...) finds it in the dict's order
FirstGreatest(scores, S) ==
  CHOOSE i \in S :
    /\ \A j \in S : scores[j] <= scores[i]
    /\ \A j \in S : j < i => scores[j] < scores[i]

\* classify_client_archetype: the five scores, each in tenths of a point,
\* the first greatest as primary, the first greatest of the others as
\* secondary, confidence = primary score / 100 (in thousandths: the score in
\* tenths); any exception gives the static 'Mixed Profile' classification.
classify_client_archetype(psychological_profile, sales_performance, emotional_journey) ==
  LET raised ==
        \/ ~Gettable(psychological_profile, "big_five_personality")
        \/ ~Gettable(psychological_profile, "decision_making_profile")
        \/ ~Gettable(psychological_profile, "stress_and_motivation")
        \/ ~IsDict(emotional_journey)
        \/ KindOf(emotional_journey, "emotional_timeline") \notin {"missing", "list"}
        \/ ~Gettable(emotional_journey, "motivation_and_hope")
        \/ ~Gettable(emotional_journey, "psychological_barriers")
      p == psychological_profile.v
      j == emotional_journey.v
      bf(t) == IF KindOf(psychological_profile, "big_five_personality") = "object"
                 THEN p.big_five[t] ELSE 50
      stress == IF KindOf(psychological_profile, "stress_and_motivation") = "object"
                  THEN OrDefault(p.stress, 5).n ELSE 5
      intensity == IF KindOf(emotional_journey, "emotional_timeline") = "list"
                     THEN j.intensity ELSE 5
      hope == IF KindOf(emotional_journey, "motivation_and_hope") = "object"
                THEN j.hope ELSE 5
      skepticism == IF KindOf(emotional_journey, "psychological_barriers") = "object"
                      THEN j.skepticism_areas ELSE 0
      consensus == IF KindOf(psychological_profile, "decision_making_profile") = "object"
                        /\ p.primary_style = "consensus" THEN 10 ELSE 0
      five_scores ==
        << Min(bf("openness") * 3 + bf("conscientiousness") * 4
                 + (100 - bf("neuroticism")) * 3, 1000),
           Min(bf("neuroticism") * 5 + intensity * 30 + (10 - stress) * 20, 1000),
           Min(bf("extraversion") * 3 + bf("openness") * 3 + hope * 40, 1000),
           Min(bf("conscientiousness") * 4 + (100 - bf("agreeableness")) * 3
                 + skepticism * 60, 1000),
           Min(bf("agreeableness") * 4 + (100 - bf("extraversion")) * 3
                 + consensus * 3, 1000) >>
      primary == FirstGreatest(five_scores, 1..5)
      secondary == FirstGreatest(five_scores, (1..5) \ {primary})
  IN IF raised
       THEN Obj(Keys({"primary_archetype", "secondary_archetype", "error"}, "string")
                  @@ Keys({"confidence_score"}, "number"),
                [primary_archetype |-> "Mixed Profile",
                 confidence_score |-> Num(500),
                 secondary_archetype |-> "Hopeful Builder"])
       ELSE Obj(Keys({"primary_archetype", "primary_archetype_key",
                      "secondary_archetype", "classification_reasoning"}, "string")
                  @@ Keys({"confidence_score"}, "number")
                  @@ Keys({"five_scores", "archetype_details"}, "object"),
                [primary_archetype |->
                   EnhancedArchetypeName(EnhancedArchetypeKeys[primary]),
                 confidence_score |-> Num(five_scores[primary]),
                 secondary_archetype |->
                   EnhancedArchetypeName(EnhancedArchetypeKeys[secondary])])

\* calculate_analysis_confidence reads both payloads outside any try block
\* of its own: .get on a payload that is not a dict and len() of a null or a
\* number raise
analysis_confidence_raises(psychological_profile, sales_performance) ==
  \/ ~IsDict(psychological_profile)
  \/ KindOf(psychological_profile, "big_five_personality") \in {"null", "number"}
  \/ ~IsDict(sales_performance)
  \/ KindOf(sales_performance, "sales_skills_breakdown") \in {"null", "number"}

\* (0.9 or 0.6, plus 0.9 or 0.7) / 2, in twentieths
calculate_analysis_confidence(psychological_profile, sales_performance) ==
  LET traits == IF KindOf(psychological_profile, "big_five_personality") = "object"
                  THEN Cardinality(DOMAIN psychological_profile.v.big_five) ELSE 0
      skills == IF KindOf(sales_performance, "sales_skills_breakdown") = "object"
                  THEN sales_performance.v.skills ELSE 0
  IN (IF traits = 5 THEN 9 ELSE 6) + (IF skills >= 5 THEN 9 ELSE 7)

EnhancedPsychologicalDoc ==
  Obj(Keys({"big_five_personality", "emotional_intelligence",
            "decision_making_profile", "stress_and_motivation"}, "object"),
      [big_five |-> [t \in BigFive |-> IF t = "neuroticism" THEN 80 ELSE 40],
       primary_style |-> "emotional", stress |-> Num(8), motivation |-> Num(9)])

\* "big_five_personality": null
EnhancedPsychologicalNullTraits ==
  Obj(Keys({"big_five_personality"}, "null")
        @@ Keys({"emotional_intelligence", "decision_making_profile",
                 "stress_and_motivation"}, "object"),
      [big_five |-> << >>, primary_style |-> "emotional", stress |-> Num(8),
       motivation |-> Num(9)])

EnhancedSalesDoc ==
  Obj(Keys({"overall_assessment", "sales_skills_breakdown"}, "object"),
      [performance_score |-> Num(72), skills |-> 6])

EnhancedJourneyDoc ==
  Obj(Keys({"emotional_timeline"}, "list")
        @@ Keys({"overall_emotional_profile", "motivation_and_hope",
                 "psychological_barriers"}, "object"),
      [intensity |-> 8, hope |-> 7, skepticism_areas |-> 1])

CommunicationDoc ==
  Obj(Keys({"communication_style", "language_patterns"}, "object"),
      [pace_preference |-> "fast"])

EnhancedDocs(s) ==
  CASE s = 1 -> {Garbage, EnhancedPsychologicalDoc, EnhancedPsychologicalNullTraits}
    [] s = 2 -> {Garbage, EnhancedSalesDoc, NonObject}
    [] s = 3 -> {Garbage, EnhancedJourneyDoc}
    [] s = 4 -> {Garbage, CommunicationDoc}
    [] s = 6 -> {Garbage, CoachingDoc}

EnhancedReplies(s) ==
  {Raised} \cup {Returned(Text(w[1], w[2], w[3], doc)) :
                   w \in Wrappers, doc \in EnhancedDocs(s)}

\* -------------------------------------------------------------- requests
\* A transcript: its length after trimming, the whitespace around it, and
\* the trigger words its lower-cased text holds.
WordSets == { {}, {"crisis", "data"} }

NoText == [len |-> 0, pad |-> 0, words |-> {}]

RequestTexts ==
  {[len |-> l, pad |-> p, words |-> {}] :
     l \in {0, MinContentLen - 1}, p \in {0, MaxPadding}}
  \cup {[len |-> l, pad |-> 0, words |-> w] :
          l \in {MinContentLen}, w \in WordSets}

\* The body of a POST request: bytes that are not UTF-8, an empty body, text
\* that is not JSON, a JSON number, a JSON array, or a JSON object whose
\* content field is missing, null, a number or a string.
Body(kind, content_kind, text) == [kind |-> kind, content |-> content_kind, text |-> text]

RequestBodies ==
  {Body(k, "missing", NoText) :
     k \in {"not_utf8", "empty", "not_json", "number", "array"}}
  \cup {Body("object", c, NoText) : c \in {"missing", "null", "number"}}
  \cup {Body("object", "string", t) : t \in RequestTexts}

\* the transcript files process_transcript_batch reads for analyze_transcript
TranscriptFiles == {Body("file", "string", t) : t \in RequestTexts}

\* The two HTTP handlers and the command-line runner of
\* EnhancedSalesAnalyzer, each with or without the credential.
Requests ==
  [entry : {"marriage_analyze", "analyze"}, api_key : BOOLEAN,
   body : RequestBodies]
  \cup [entry : {"enhanced"}, api_key : BOOLEAN, body : TranscriptFiles]

NoResponse == [code |-> 0, error |-> "none"]
Response(code, error) == [code |-> code, error |-> error]

\* a handler that reads and validates the body before it looks for the key
do_POST_body_first(request) ==
  LET body == request.body
  IN CASE body.kind = "not_utf8" -> Response(500, "Internal server error")
       [] body.kind \in {"empty", "not_json"} ->
            Response(400, "Invalid JSON in request body")
       [] body.kind = "number" -> Response(500, "Internal server error")
       [] body.kind = "array" -> Response(400, "Missing required field: content")
       [] OTHER ->
            IF body.content = "string" /\ body.text.len >= MinContentLen
              THEN IF request.api_key THEN NoResponse
                   ELSE Response(500, "API key not configured")
              ELSE Response(400, "Content too short")

\* handler.do_POST of api/marriage_analyze.py up to the construction of the
\* analyzer: the response it sends, or code 0 when it goes on to analyse
do_POST(request) ==
  LET body == request.body
  IN IF ~request.api_key THEN Response(500, "API key not configured")
     ELSE CASE body.kind = "not_utf8" -> Response(500, "Internal server error")
            [] body.kind \in {"empty", "not_json"} ->
                 Response(400, "Invalid JSON in request body")
            [] body.kind = "number" -> Response(500, "Internal server error")
            [] body.kind = "array" ->
                 Response(400, "Missing required field: content")
            [] body.kind = "object" ->
                 CASE body.content = "missing" ->
                        Response(400, "Missing required field: content")
                   [] body.content = "null" -> Response(400, "Content too short")
                   [] body.content = "number" ->
                        Response(500, "Internal server error")
                   [] body.content = "string" ->
                        IF body.text.len + body.text.pad = 0
                             \/ body.text.len < MinContentLen
                          THEN Response(400, "Content too short")
                          ELSE NoResponse

\* handler.do_POST of api/analyze.py: the same checks, after a check of the
\* Content-Length header
analyze_do_POST(request) ==
  IF ~request.api_key THEN Response(500, "API key not configured")
  ELSE IF request.body.kind = "empty" THEN Response(400, "Empty request body")
  ELSE do_POST(request)

\* AnalysisRunner.__init__ raises ValueError without the credential;
\* otherwise the runner constructs the analyzer and analyses the files
AnalysisRunner_init(request) ==
  IF ~request.api_key
    THEN Response(0, "ANTHROPIC_API_KEY environment variable is required")
    ELSE NoResponse

\* what the entry point answers before any analysis, NoResponse when it
\* goes on to analyse
Entry(request) ==
  CASE request.entry = "marriage_analyze" -> do_POST(request)
    [] request.entry = "analyze" -> analyze_do_POST(request)
    [] request.entry = "enhanced" -> AnalysisRunner_init(request)

\* ------------------------------------------------------------------ state
VARIABLES
  request,        \* the POST request being handled
  body_read,      \* the handler has read the request body
  analyzer_made,  \* the handler has constructed the analyzer
  response,       \* the HTTP response sent, NoResponse before
  pc,             \* "received", "begin", "call", "assemble", "done"
  stage,          \* the stage being run, 1..NStages
  results,        \* the payloads of the stages resolved so far
  attempt,        \* _call_api_with_retry: the loop variable
  waits,          \* the sleeps of this _call_api_with_retry call, in order
  calls,          \* the messages.create calls of this call
  last_error,     \* last_error of this call
  outcome,        \* "none", "running", "returned", "client_error", "exhausted"
  report,         \* the report returned by the analyzer
  mock,           \* per stage, what a scripted upstream answers; "any" if real
  store,          \* the row of enhanced_clients for the transcript's filename
  transcript,     \* the lines of the content given to the marriage pipeline
  normalized,     \* what parse_vtt_content returned for it, NotNormalized before
  renormalized,   \* what parse_vtt_content returns for its own text result
  previous,       \* the report of the run before this one on the same input
  transcript_files, \* process_transcript_batch: the paths it was given
  batch_start,    \* process_transcript_batch: where the next group starts
  batch_tasks,    \* the analyze_transcript tasks of the group being gathered
  last_saved,     \* per filename, the report of the latest save that committed
  batch_results,  \* process_transcript_batch: results
  batch_pc,       \* "idle", "loop", "gather", "sleep", "returned"
  prompt_inputs   \* per stage begun, the earlier payloads its prompt was built from

vars ==
  << request, body_read, analyzer_made, response, pc, stage, results, attempt,
     waits, calls, last_error, outcome, report, mock, store, transcript,
     normalized, renormalized, previous, transcript_files, batch_start,
     batch_tasks, last_saved, batch_results, batch_pc, prompt_inputs >>

vtt_vars == << transcript, normalized, renormalized >>

batch_vars ==
  << transcript_files, batch_start, batch_tasks, last_saved, batch_results,
     batch_pc >>

NotNormalized == [text |-> << >>, wasTimestamped |-> FALSE, pending |-> TRUE]

\* a transcript of plain text
PlainTranscript == << TextLine("text", "a", FALSE), TextLine("text", "b", TRUE) >>

retry_vars == << attempt, waits, calls, last_error, outcome >>

NoReport == [status |-> "none"]

\* A transcript path: its directory, its basename, and whether open() can
\* read it.
Path(dir, name, readable) == [dir |-> dir, name |-> name, readable |-> readable]

\* os.path.basename(transcript_path)
basename(transcript_path) == transcript_path.name

\* the path the command-line runner analyzes on its own
TranscriptPath == Path("Test Transcripts", "transcript", TRUE)

\* the paths process_transcript_batch may be given: two directories holding a
\* file of the same name, another file, and one that cannot be read
Paths ==
  { Path("a", "x.txt", TRUE), Path("b", "x.txt", TRUE),
    Path("a", "y.txt", TRUE), Path("a", "z.txt", FALSE) }

Filenames == {basename(path) : path \in Paths \cup {TranscriptPath}}

\* enhanced_clients, its rows in the order they were inserted; a row written
\* by an earlier run
NoRows == << >>
OldRow ==
  [filename |-> "transcript", success_probability |-> Num(2500),
   complete_analysis |-> [status |-> "success",
                          success_probability |-> Num(2500)]]

\* the report each filename's row was last saved from
SavedIn(rows) ==
  [fn \in Filenames |->
     IF \E i \in 1..Len(rows) : rows[i].filename = fn
       THEN rows[CHOOSE i \in 1..Len(rows) : rows[i].filename = fn].complete_analysis
     ELSE NoReport]

\* no batch is being processed
NoBatch ==
  /\ transcript_files = << >>
  /\ batch_start = 1
  /\ batch_tasks = << >>
  /\ last_saved = SavedIn(store)
  /\ batch_results = << >>
  /\ batch_pc = "idle"

\* nothing has been analyzed yet
Received ==
  /\ body_read = FALSE
  /\ analyzer_made = FALSE
  /\ response = NoResponse
  /\ pc = "received"
  /\ stage = 0
  /\ results = << >>
  /\ attempt = 0
  /\ waits = << >>
  /\ calls = 0
  /\ last_error = "none"
  /\ outcome = "none"
  /\ report = NoReport
  /\ normalized = NotNormalized
  /\ renormalized = NotNormalized
  /\ previous = NoReport
  /\ prompt_inputs = << >>

Start ==
  /\ Received
  /\ NoBatch

\* any request, against the real upstream
Init ==
  /\ request \in Requests
  /\ mock = [s \in 1..NStages |-> "any"]
  /\ store \in (IF request.entry = "enhanced" THEN {NoRows, << OldRow >>}
                ELSE {NoRows})
  /\ transcript = PlainTranscript
  /\ Start

content == request.body.text

\* the entry point rejects the request
Reject ==
  /\ pc = "received"
  /\ Entry(request) # NoResponse
  /\ response' = Entry(request)
  /\ body_read' = request.api_key
  /\ pc' = "done"
  /\ UNCHANGED << request, analyzer_made, stage, results, retry_vars,
                  report, mock, store, vtt_vars, previous, batch_vars, prompt_inputs >>

\* the entry point constructs the analyzer and starts the analysis
Accept ==
  /\ pc = "received"
  /\ Entry(request) = NoResponse
  /\ body_read' = TRUE
  /\ analyzer_made' = TRUE
  /\ pc' = "begin"
  /\ stage' = 1
  /\ normalized' = IF request.entry = "marriage_analyze"
                     THEN parse_vtt_content(transcript) ELSE normalized
  /\ UNCHANGED << request, response, results, retry_vars, report, mock, store,
                  transcript, renormalized, previous, batch_vars, prompt_inputs >>

\* --------------------------------------------------------- the pipeline
\* building the prompt of the stage raises outside the stage's try block
prompt_raises ==
  \/ stage = 3 /\ sales_framework_prompt_raises(results[2])
  \/ stage = 8 /\ talk_track_prompt_raises(results[3], results[5])

ErrorReport == [status |-> "error", error |-> "object has no attribute 'get'"]

\* A stage builds its prompt and enters _call_api_with_retry.
\* a client that keeps its attempt counter and last error between calls
retry_loop_entry_kept ==
  /\ outcome' = "running"
  /\ UNCHANGED << attempt, waits, calls, last_error >>

\* _call_api_with_retry is entered: last_error = None and the loop
\* for attempt in range(self.max_retries) starts, both local to the call
retry_loop_entry ==
  /\ attempt' = 0
  /\ waits' = << >>
  /\ calls' = 0
  /\ last_error' = "none"
  /\ outcome' = "running"

\* the earlier payloads handed to the call that starts stage s: the arguments
\* of analyze_coaching_effectiveness(content, emotional_analysis) and of
\* analyze_talk_track_improvements(content, coaching_analysis,
\* archetype_analysis); classify_archetype(psychological_analysis,
\* sales_analysis) and generate_coaching_recommendations(psychological_analysis,
\* sales_analysis, archetype_analysis); the enhanced analyzer's
\* classify_client_archetype and generate_coaching_recommendations
consumed(entry, s, payloads) ==
  CASE entry = "marriage_analyze" /\ s = 3 -> << payloads[2] >>
    [] entry = "marriage_analyze" /\ s = 8 -> << payloads[3], payloads[5] >>
    [] entry = "analyze" /\ s = 3 -> << payloads[1], payloads[2] >>
    [] entry = "analyze" /\ s = 4 -> << payloads[1], payloads[2], payloads[3] >>
    [] entry = "enhanced" /\ s = 5 -> << payloads[1], payloads[2], payloads[3] >>
    [] entry = "enhanced" /\ s = 6 -> << payloads[1], payloads[2], payloads[5] >>
    [] OTHER -> << >>

\* the same call made before the coaching stage's payload is bound: the
\* prompt would be built from the stage's default document
BeginStage_early ==
  /\ pc = "begin"
  /\ request.entry = "marriage_analyze"
  /\ ~prompt_raises
  /\ pc' = "call"
  /\ retry_loop_entry
  /\ prompt_inputs' =
       Append(prompt_inputs,
              consumed(request.entry, stage,
                       IF Len(results) >= 3
                         THEN [results EXCEPT ![3] = get_fallback_sales_framework]
                         ELSE results))
  /\ UNCHANGED << request, body_read, analyzer_made, response, stage, results,
                  report, mock, store, vtt_vars, previous, batch_vars >>

BeginStage ==
  /\ pc = "begin"
  /\ request.entry = "marriage_analyze"
  /\ ~prompt_raises
  /\ pc' = "call"
  /\ retry_loop_entry
  /\ prompt_inputs' =
       Append(prompt_inputs, consumed(request.entry, stage, results))
  /\ UNCHANGED << request, body_read, analyzer_made, response, stage, results,
                  report, mock, store, vtt_vars, previous, batch_vars >>

\* The prompt of the stage cannot be built: the exception reaches the except
\* branch of analyze_marriage_coaching_call, and do_POST sends its report.
PromptRaises ==
  /\ pc = "begin"
  /\ request.entry = "marriage_analyze"
  /\ prompt_raises
  /\ report' = ErrorReport
  /\ response' = Response(200, "none")
  /\ pc' = "done"
  /\ UNCHANGED << request, body_read, analyzer_made, stage, results, retry_vars,
                  mock, store, vtt_vars, previous, batch_vars, prompt_inputs >>

\* the stage method applied to what _call_api_with_retry gave it
RunStage(s, reply) ==
  CASE s = 1 -> detect_call_outcome(reply)
    [] s = 2 -> detect_discovery_quality(reply)
    [] s = 3 -> analyze_sales_framework(reply)
    [] s = 4 -> analyze_psychological_profile(reply)
    [] s = 5 -> analyze_marriage_coaching_specifics(reply)
    [] s = 6 -> analyze_emotional_journey(reply, content)
    [] s = 7 -> classify_marriage_archetype(reply, content)
    [] s = 8 -> analyze_talk_track_improvements(reply)

\* a talk-track stage that writes its script priorities into the framework
\* scores it was handed
Resolve_annotating(reply) ==
  /\ results' =
       Append(IF stage = NStages
                THEN [results EXCEPT
                        ![3] = With(results[3], "script_drilling_priorities", "object")]
                ELSE results,
              RunStage(stage, reply))
  /\ IF stage = NStages
       THEN pc' = "assemble" /\ stage' = stage
       ELSE pc' = "begin" /\ stage' = stage + 1

\* the stage resolves to a payload and the next one is due
Resolve(reply) ==
  /\ results' = Append(results, RunStage(stage, reply))
  /\ IF stage = NStages
       THEN pc' = "assemble" /\ stage' = stage
       ELSE pc' = "begin" /\ stage' = stage + 1

\* a backoff that forgets the attempt number
wait_time_flat(fault, n) == IF fault = "rate_limit" THEN 2 ELSE 1

\* wait_time of a failed attempt: (2 ** attempt) * 2 after a rate limit,
\* 2 ** attempt after any other fault
wait_time(fault, n) == IF fault = "rate_limit" THEN (2 ^ n) * 2 ELSE 2 ^ n

\* messages.create returns text: _call_api_with_retry returns it
UpstreamReturns ==
  /\ pc = "call"
  /\ \E text \in MockTexts(stage, mock[stage]) :
       /\ calls' = calls + 1
       /\ outcome' = "returned"
       /\ Resolve(Returned(text))
  /\ UNCHANGED << request, body_read, analyzer_made, response, attempt, waits,
                  last_error, report, mock, store, vtt_vars, previous, batch_vars, prompt_inputs >>

\* a retry loop that makes one attempt too many
UpstreamFails_one_more ==
  /\ pc = "call"
  /\ mock[stage] \in {"any", "flaky", "down"}
  /\ \E fault \in TransientFaults :
       /\ calls' = calls + 1
       /\ last_error' = fault
       /\ IF attempt < max_retries
            THEN /\ waits' = Append(waits, wait_time(fault, attempt))
                 /\ attempt' = attempt + 1
                 /\ UNCHANGED << pc, stage, results, outcome >>
            ELSE /\ outcome' = "exhausted"
                 /\ Resolve(Raised)
                 /\ UNCHANGED << attempt, waits >>
  /\ UNCHANGED << request, body_read, analyzer_made, response, report, mock, store, vtt_vars, previous, batch_vars, prompt_inputs >>

\* messages.create raises a fault that is retried: the call sleeps and
\* tries again, or, on the last attempt, leaves the loop and raises
UpstreamFails ==
  /\ pc = "call"
  /\ mock[stage] \in {"any", "flaky", "down"}
  /\ \E fault \in TransientFaults :
       /\ calls' = calls + 1
       /\ last_error' = fault
       /\ IF attempt < max_retries - 1
            THEN /\ waits' = Append(waits, wait_time(fault, attempt))
                 /\ attempt' = attempt + 1
                 /\ UNCHANGED << pc, stage, results, outcome >>
            ELSE /\ outcome' = "exhausted"
                 /\ Resolve(Raised)
                 /\ UNCHANGED << attempt, waits >>
  /\ UNCHANGED << request, body_read, analyzer_made, response, report, mock, store, vtt_vars, previous, batch_vars, prompt_inputs >>

\* a client error handled like a server error: slept on and retried
UpstreamRejects_retried ==
  /\ pc = "call"
  /\ mock[stage] \in {"any", "flaky", "down"}
  /\ calls' = calls + 1
  /\ last_error' = "client_error"
  /\ IF attempt < max_retries - 1
       THEN /\ waits' = Append(waits, wait_time("client_error", attempt))
            /\ attempt' = attempt + 1
            /\ UNCHANGED << pc, stage, results, outcome >>
       ELSE /\ outcome' = "client_error"
            /\ Resolve(Raised)
            /\ UNCHANGED << attempt, waits >>
  /\ UNCHANGED << request, body_read, analyzer_made, response, report, mock, store, vtt_vars, previous, batch_vars, prompt_inputs >>

\* messages.create raises an APIError whose status code starts with 4:
\* _call_api_with_retry re-raises it at once
\* a client error after which the call starts over
UpstreamRejects_restarting ==
  /\ pc = "call"
  /\ mock[stage] \in {"any", "flaky", "down"}
  /\ calls' = 0
  /\ attempt' = 0
  /\ waits' = << >>
  /\ last_error' = "client_error"
  /\ UNCHANGED << request, body_read, analyzer_made, response, pc, stage, results,
                  outcome, report, mock, store, vtt_vars, previous, batch_vars,
                  prompt_inputs >>

\* messages.create raises an APIError whose status code starts with 4: the
\* error is raised again at once, and the stage's except branch takes it
UpstreamRejects ==
  /\ pc = "call"
  /\ mock[stage] \in {"any", "flaky", "down"}
  /\ calls' = calls + 1
  /\ last_error' = "client_error"
  /\ outcome' = "client_error"
  /\ Resolve(Raised)
  /\ UNCHANGED << request, body_read, analyzer_made, response, attempt, waits,
                  report, mock, store, vtt_vars, previous, batch_vars, prompt_inputs >>

\* a scorer that remembers it has run before and answers differently
Assemble_remembering ==
  /\ pc = "assemble"
  /\ request.entry = "marriage_analyze"
  /\ LET success_probability ==
           IF previous = NoReport
             THEN calculate_marriage_success_probability(results[3], results[5],
                                                         results[7])
             ELSE Num(12000)
     IN report' =
          [status |-> "success",
           call_metadata |-> call_metadata(content, None, None, None, None),
           call_outcome |-> results[1],
           discovery_quality |-> results[2],
           sales_framework_analysis |-> results[3],
           psychological_profile |-> results[4],
           marriage_coaching_analysis |-> results[5],
           emotional_journey |-> results[6],
           archetype_analysis |-> results[7],
           talk_track_improvements |-> results[8],
           success_probability |-> success_probability,
           coaching_assessment |-> determine_coaching_urgency(success_probability)]
  /\ response' = Response(200, "none")
  /\ pc' = "done"
  /\ UNCHANGED << request, body_read, analyzer_made, stage, results, retry_vars,
                  mock, store, vtt_vars, previous, batch_vars, prompt_inputs >>

\* analyze_marriage_coaching_call scores the payloads and returns the
\* report; do_POST sends it.
Assemble ==
  /\ pc = "assemble"
  /\ request.entry = "marriage_analyze"
  /\ LET success_probability ==
           calculate_marriage_success_probability(results[3], results[5], results[7])
     IN report' =
          [status |-> "success",
           call_metadata |-> call_metadata(content, None, None, None, None),
           call_outcome |-> results[1],
           discovery_quality |-> results[2],
           sales_framework_analysis |-> results[3],
           psychological_profile |-> results[4],
           marriage_coaching_analysis |-> results[5],
           emotional_journey |-> results[6],
           archetype_analysis |-> results[7],
           talk_track_improvements |-> results[8],
           success_probability |-> success_probability,
           coaching_assessment |-> determine_coaching_urgency(success_probability)]
  /\ response' = Response(200, "none")
  /\ pc' = "done"
  /\ UNCHANGED << request, body_read, analyzer_made, stage, results, retry_vars,
                  mock, store, vtt_vars, previous, batch_vars, prompt_inputs >>

\* ---------------------------------- ServerlessAnalyzer.analyze_transcript_content
\* A stage calls messages.create once and resolves to what it parsed or to its
\* fallback.
ServerlessStage ==
  /\ pc = "begin"
  /\ request.entry = "analyze"
  /\ ~(stage = 4 /\ coaching_prompt_raises(results[2], results[3]))
  /\ \E reply \in ServerlessReplies(stage) :
       results' = Append(results, ServerlessAnalyzer_stage(stage, reply))
  /\ calls' = 1
  /\ prompt_inputs' =
       Append(prompt_inputs, consumed(request.entry, stage, results))
  /\ IF stage = ServerlessStages
       THEN pc' = "assemble" /\ stage' = stage
       ELSE pc' = "begin" /\ stage' = stage + 1
  /\ UNCHANGED << request, body_read, analyzer_made, response, attempt, waits,
                  last_error, outcome, report, mock, store, vtt_vars, previous, batch_vars >>

\* generate_coaching_recommendations raises before its try block: the except
\* branch of analyze_transcript_content returns the report, do_POST sends it
ServerlessRaises ==
  /\ pc = "begin"
  /\ request.entry = "analyze"
  /\ stage = 4 /\ coaching_prompt_raises(results[2], results[3])
  /\ report' = ErrorReport
  /\ response' = Response(200, "none")
  /\ pc' = "done"
  /\ UNCHANGED << request, body_read, analyzer_made, stage, results, retry_vars,
                  mock, store, vtt_vars, previous, batch_vars, prompt_inputs >>

ServerlessAssemble ==
  /\ pc = "assemble"
  /\ request.entry = "analyze"
  /\ report' =
       [status |-> "success",
        psychological_profile |-> results[1],
        sales_performance |-> results[2],
        archetype_analysis |-> results[3],
        coaching_recommendations |-> results[4],
        success_probability |->
          ServerlessAnalyzer_calculate_success_probability(
            results[2], results[1], results[3])]
  /\ response' = Response(200, "none")
  /\ pc' = "done"
  /\ UNCHANGED << request, body_read, analyzer_made, stage, results, retry_vars,
                  mock, store, vtt_vars, previous, batch_vars, prompt_inputs >>

\* ------------------------------------ EnhancedSalesAnalyzer.analyze_transcript
\* the report of the except branch of analyze_transcript, with another status
EnhancedFailedReport_error ==
  [status |-> "error", error |-> "object has no attribute 'get'"]

\* the report of the except branch of analyze_transcript
EnhancedFailedReport ==
  [status |-> "failed", error |-> "object has no attribute 'get'"]

\* One of the four model-based analyses, or the call of
\* generate_coaching_recommendations: one messages.create call, resolved to
\* what it parsed or to the default payload.
EnhancedStage ==
  /\ pc = "begin"
  /\ request.entry = "enhanced"
  /\ stage # 5
  /\ ~(stage = 6 /\ coaching_prompt_raises(results[2], results[5]))
  /\ \E reply \in EnhancedReplies(stage) :
       results' = Append(results, EnhancedSalesAnalyzer_stage(stage, reply))
  /\ calls' = 1
  /\ prompt_inputs' =
       Append(prompt_inputs, consumed(request.entry, stage, results))
  /\ IF stage = EnhancedStages
       THEN pc' = "assemble" /\ stage' = stage
       ELSE pc' = "begin" /\ stage' = stage + 1
  /\ UNCHANGED << request, body_read, analyzer_made, response, attempt, waits,
                  last_error, outcome, report, mock, store, vtt_vars, previous, batch_vars >>

\* classify_client_archetype: no upstream call
EnhancedClassify ==
  /\ pc = "begin"
  /\ request.entry = "enhanced"
  /\ stage = 5
  /\ results' = Append(results,
                       classify_client_archetype(results[1], results[2], results[3]))
  /\ stage' = 6
  /\ prompt_inputs' =
       Append(prompt_inputs, consumed(request.entry, stage, results))
  /\ UNCHANGED << request, body_read, analyzer_made, response, pc, retry_vars,
                  report, mock, store, vtt_vars, previous, batch_vars >>

\* generate_coaching_recommendations raises before its try block: the except
\* branch of analyze_transcript returns the report; nothing is saved
EnhancedRaises ==
  /\ pc = "begin"
  /\ request.entry = "enhanced"
  /\ stage = 6 /\ coaching_prompt_raises(results[2], results[5])
  /\ report' = EnhancedFailedReport
  /\ pc' = "done"
  /\ UNCHANGED << request, body_read, analyzer_made, response, stage, results,
                  retry_vars, mock, store, vtt_vars, previous, batch_vars, prompt_inputs >>

\* the row save_analysis_to_database writes for the report
Row(transcript_path, analysis_result) ==
  [filename |-> basename(transcript_path),
   success_probability |-> analysis_result.success_probability,
   complete_analysis |-> analysis_result]

\* INSERT OR IGNORE: a filename that has a row keeps it
insert_or_ignore(rows, row) ==
  IF \E i \in 1..Len(rows) : rows[i].filename = row.filename
    THEN rows ELSE Append(rows, row)

\* INSERT OR REPLACE INTO enhanced_clients, filename TEXT UNIQUE: the row of
\* the same filename is deleted and the new row inserted
insert_or_replace(rows, row) ==
  LET other(r) == r.filename # row.filename
  IN Append(SelectSeq(rows, other), row)

\* save_analysis_to_database: the row is committed, or an exception is
\* logged and the table left as it was
save_analysis_to_database(rows, transcript_path, analysis_result, committed) ==
  IF committed THEN insert_or_replace(rows, Row(transcript_path, analysis_result))
  ELSE rows

\* what analyze_transcript returns once its stages are through: the compiled
\* report, or the report of the except branch when
\* calculate_analysis_confidence raises
analyze_transcript_report(payloads) ==
  IF analysis_confidence_raises(payloads[1], payloads[2])
    THEN EnhancedFailedReport
  ELSE [status |-> "success",
        psychological_profile |-> payloads[1],
        sales_performance |-> payloads[2],
        emotional_journey |-> payloads[3],
        communication_patterns |-> payloads[4],
        archetype_analysis |-> payloads[5],
        coaching_recommendations |-> payloads[6],
        success_probability |->
          EnhancedSalesAnalyzer_calculate_success_probability(
            payloads[2], payloads[1], payloads[5]),
        analysis_confidence |->
          calculate_analysis_confidence(payloads[1], payloads[2])]

\* a save that also runs in the except branch, on the report of a failed
\* analysis
Saves_failed_too(transcript_path, analysis_result) ==
  \E committed \in BOOLEAN :
    /\ store' =
         IF committed
           THEN insert_or_replace(
                  store,
                  [filename |-> basename(transcript_path),
                   success_probability |->
                     IF analysis_result.status = "success"
                       THEN analysis_result.success_probability ELSE Num(2500),
                   complete_analysis |-> analysis_result])
         ELSE store
    /\ last_saved' =
         IF committed
           THEN [last_saved EXCEPT ![basename(transcript_path)] = analysis_result]
         ELSE last_saved

\* the save at the end of analyze_transcript's try block
Saves(transcript_path, analysis_result) ==
  IF analysis_result.status = "success"
    THEN \E committed \in BOOLEAN :
           /\ store' = save_analysis_to_database(store, transcript_path,
                                                 analysis_result, committed)
           /\ last_saved' =
                IF committed
                  THEN [last_saved EXCEPT ![basename(transcript_path)] = analysis_result]
                ELSE last_saved
  ELSE UNCHANGED << store, last_saved >>

\* analyze_transcript scores, compiles the report and saves it; an exception
\* of calculate_analysis_confidence reaches the except branch before the
\* save; save_analysis_to_database swallows its own exceptions
EnhancedAssemble ==
  /\ pc = "assemble"
  /\ request.entry = "enhanced"
  /\ report' = analyze_transcript_report(results)
  /\ Saves(TranscriptPath, report')
  /\ pc' = "done"
  /\ UNCHANGED << request, body_read, analyzer_made, response, stage, results,
                  retry_vars, mock, vtt_vars, previous, transcript_files,
                  batch_start, batch_tasks, batch_results, batch_pc,
                  prompt_inputs >>

Next ==
  \/ Reject
  \/ Accept
  \/ BeginStage
  \/ PromptRaises
  \/ UpstreamReturns
  \/ UpstreamFails
  \/ UpstreamRejects
  \/ Assemble
  \/ ServerlessStage
  \/ ServerlessRaises
  \/ ServerlessAssemble
  \/ EnhancedStage
  \/ EnhancedClassify
  \/ EnhancedRaises
  \/ EnhancedAssemble

Spec == Init /\ [][Next]_vars

\* An accepted request against a scripted upstream that, for each stage,
\* always answers the schema's document or always answers invalid text.
AcceptedRequests ==
  {r \in Requests : r.entry = "marriage_analyze" /\ do_POST(r) = NoResponse}

InitMock ==
  /\ request \in AcceptedRequests
  /\ mock \in [1..NStages -> {"valid", "invalid"}]
  /\ store = NoRows
  /\ transcript = PlainTranscript
  /\ Start

NextMock ==
  \/ Accept
  \/ BeginStage
  \/ UpstreamReturns
  \/ Assemble

SpecMock == InitMock /\ [][NextMock]_vars

\* ------------------------------------------- the keyword classifiers alone
\* Accepted transcripts holding any of one trigger phrase per archetype,
\* against an upstream whose every answer is invalid text: each stage falls
\* back, the archetype stage to _fallback_keyword_archetype.
KeywordSample ==
  { "last chance", "success rate", "burned before", "my spouse",
    "looking forward" }

InitKeyword ==
  /\ request \in {[entry |-> "marriage_analyze", api_key |-> TRUE,
                    body |-> Body("object", "string",
                                  [len |-> MinContentLen, pad |-> 0, words |-> w])] :
                     w \in SUBSET KeywordSample}
  /\ mock = [s \in 1..NStages |-> "invalid"]
  /\ store = NoRows
  /\ transcript = PlainTranscript
  /\ Start

SpecKeyword == InitKeyword /\ [][NextMock]_vars

\* Transcripts that hold several trigger phrases of one archetype next to
\* one of another, against the same upstream.
HitSample == { "crisis", "statistics", "data", "my spouse" }

InitHits ==
  /\ request \in {[entry |-> "marriage_analyze", api_key |-> TRUE,
                    body |-> Body("object", "string",
                                  [len |-> MinContentLen, pad |-> 0, words |-> w])] :
                     w \in SUBSET HitSample}
  /\ mock = [s \in 1..NStages |-> "invalid"]
  /\ store = NoRows
  /\ transcript = PlainTranscript
  /\ Start

SpecHits == InitHits /\ [][NextMock]_vars

\* ------------------------------------------------ an upstream that is down
\* Every messages.create call raises one of its errors or returns text that
\* is not JSON, on transcripts holding any of one trigger phrase per archetype.
InitDown ==
  /\ request \in {[entry |-> "marriage_analyze", api_key |-> TRUE,
                    body |-> Body("object", "string",
                                  [len |-> MinContentLen, pad |-> 0, words |-> w])] :
                     w \in SUBSET KeywordSample}
  /\ mock = [s \in 1..NStages |-> "down"]
  /\ store = NoRows
  /\ transcript = PlainTranscript
  /\ Start

NextDown ==
  \/ Accept
  \/ BeginStage
  \/ UpstreamReturns
  \/ UpstreamFails
  \/ UpstreamRejects
  \/ Assemble

SpecDown == InitDown /\ [][NextDown]_vars

\* ------------------------------------------------- one invocation to its end
\* analyze_marriage_coaching_call on an accepted transcript, each upstream
\* call returning or failing in the end: whatever step the invocation is at
\* is eventually taken.  The upstream answers the schema's document, text
\* that is not JSON or, to the discovery call, an object whose
\* switching_gears_detected is null, or raises any of its errors.
InitLive ==
  /\ request = [entry |-> "marriage_analyze", api_key |-> TRUE,
                body |-> Body("object", "string",
                              [len |-> MinContentLen, pad |-> 0, words |-> {}])]
  /\ mock = [s \in 1..NStages |-> "flaky"]
  /\ store = NoRows
  /\ transcript = PlainTranscript
  /\ Start

NextLive ==
  \/ Accept
  \/ BeginStage
  \/ PromptRaises
  \/ UpstreamReturns
  \/ UpstreamFails
  \/ UpstreamRejects
  \/ Assemble

SpecLive == InitLive /\ [][NextLive]_vars /\ WF_vars(NextLive)

\* ------------------------------------------------ dressed upstream replies
\* An accepted request against a scripted upstream that answers one stage, or
\* every stage, with its schema's document inside a code fence or next to
\* commentary, and the other stages with the bare document.
InitFence ==
  /\ request = [entry |-> "marriage_analyze", api_key |-> TRUE,
                body |-> Body("object", "string",
                              [len |-> MinContentLen, pad |-> 0, words |-> {}])]
  /\ mock \in {[s \in 1..NStages |-> IF s \in dressed THEN b ELSE "valid"] :
                 dressed \in {{t} : t \in 1..NStages} \cup {1..NStages},
                 b \in Dressed}
  /\ store = NoRows
  /\ transcript = PlainTranscript
  /\ Start

SpecFence == InitFence /\ [][NextMock]_vars

\* ------------------------------------------------- requests with metadata
\* POST bodies that carry, next to content, any of client_name, closer_name,
\* zoom_meeting_id and call_date, against an upstream that answers every stage
\* with its schema's document.
Metadata ==
  [client_name : {None, "Dana"}, closer_name : {None, "Eli"},
   zoom_meeting_id : {None, "z-1"}, call_date : {None, "2024-01-02"}]

InitMeta ==
  /\ request \in {[entry |-> "marriage_analyze", api_key |-> TRUE,
                    body |-> [kind |-> "object", content |-> "string",
                              text |-> [len |-> MinContentLen, pad |-> 0, words |-> w],
                              metadata |-> md]] :
                     w \in {{}, {"my name is ann", "this is bob"}},
                     md \in Metadata}
  /\ mock = [s \in 1..NStages |-> "valid"]
  /\ store = NoRows
  /\ transcript = PlainTranscript
  /\ Start

SpecMeta == InitMeta /\ [][NextMock]_vars

\* --------------------------------------------------- the normalizer alone
\* Transcripts drawn line by line, and subtitle files built from cues: the
\* header, a blank line, then for each cue an optional numeric identifier, a
\* time-range line, its text lines and a blank line.
RawLines ==
  { BlankLine, MarkerLine, TextLine("marker", "webvtt", TRUE), DigitsLine,
    NoteLine, TextLine("text", "a", FALSE), TextLine("text", "b", TRUE),
    TimeRange(<< 0, 0, 1, 900 >>) }

RawTranscripts == UNION {[1..n -> RawLines] : n \in 0..MaxLines}

CueTextLines ==
  { TextLine("text", "a", FALSE), TextLine("text", "b", TRUE), DigitsLine,
    NoteLine, TextLine("marker", "webvtt rocks", FALSE) }

CueHeads ==
  { << TimeRange(<< 0, 0, 1, 900 >>) >>,
    << DigitsLine, TimeRange(<< 1, 5, 7, 0 >>) >> }

Cues ==
  {h \o l : h \in CueHeads,
            l \in UNION {[1..n -> CueTextLines] : n \in 1..MaxTextLines}}

RECURSIVE Flatten(_)
Flatten(blocks) ==
  IF blocks = << >> THEN << >>
  ELSE Head(blocks) \o << BlankLine >> \o Flatten(Tail(blocks))

SubtitleFiles ==
  {<< MarkerLine, BlankLine >> \o Flatten(cs) :
     cs \in UNION {[1..n -> Cues] : n \in 0..MaxCues}}

\* analyze_marriage_coaching_call is given a transcript; the result of the
\* normalizer can be given to it again
InitVtt ==
  /\ request = [entry |-> "marriage_analyze", api_key |-> TRUE,
                body |-> Body("object", "string",
                              [len |-> MinContentLen, pad |-> 0, words |-> {}])]
  /\ mock = [s \in 1..NStages |-> "any"]
  /\ store = NoRows
  /\ transcript \in RawTranscripts \cup SubtitleFiles
  /\ Start

Renormalize ==
  /\ normalized # NotNormalized
  /\ renormalized = NotNormalized
  /\ renormalized' = parse_vtt_content(normalized.text)
  /\ UNCHANGED << request, body_read, analyzer_made, response, pc, stage, results,
                  retry_vars, report, mock, store, transcript, normalized,
                  previous, batch_vars, prompt_inputs >>

NextVtt ==
  \/ Accept
  \/ Renormalize

SpecVtt == InitVtt /\ [][NextVtt]_vars

\* ------------------------------------------------------ the scorers alone
\* The payloads that can reach a scorer, built by the stage methods from
\* replies whose numbers range over the values below; each analyzer is
\* started at the point where it scores and assembles its report.
ReportedNumbers ==
  {Num(0), Num(1), Num(10), Num(MaxReported), NaN, NotNum, Absent}

\* performance_score (0..100) and confidence_score (a fraction, in thousandths)
ReportedPercents == {Num(0), Num(100), NaN, NotNum, Absent}
ReportedFractions == {Num(0), Num(1000), NaN, NotNum, Absent}

Bare(doc) == Returned(Text(FALSE, "none", FALSE, doc))

FrameworkWith(x) ==
  [FrameworkDoc EXCEPT
     !.v.scores = IF x = Absent THEN << >> ELSE [c \in SevenCategories |-> x]]

MarriageWith(urgency, state) ==
  [MarriageDoc EXCEPT !.v.urgency_level = urgency, !.v.emotional_state = state]

ArchetypeWith(name, confidence) ==
  Obj((IF confidence = Absent THEN Keys({}, "number")
       ELSE Keys({"confidence_score"}, "number"))
        @@ Keys({"primary_archetype"}, "string")
        @@ Keys({"supporting_quotes", "behavioral_indicators"}, "list"),
      [primary_archetype |-> name, confidence_score |-> confidence,
       secondary_archetype |-> "none"])

MarriageScoreInputs ==
  {[s \in 1..NStages |->
      CASE s = 3 -> analyze_sales_framework(Bare(fw))
        [] s = 5 -> analyze_marriage_coaching_specifics(Bare(ma))
        [] s = 7 -> classify_marriage_archetype(Bare(ar), NoText)
        [] OTHER -> RunStage(s, Raised)] :
     fw \in {Garbage, FrameworkIncomplete}
               \cup {FrameworkWith(x) : x \in ReportedNumbers},
     ma \in {Garbage}
               \cup {MarriageWith(u, e) : u \in ReportedNumbers,
                                          e \in {"desperate", "angry"}},
     ar \in {Garbage}
               \cup {ArchetypeWith(a, c) :
                       a \in {"DESPERATE SAVER", "SKEPTICAL EVALUATOR"},
                       c \in ReportedPercents}}

ServerlessScoreInputs ==
  {<< ServerlessAnalyzer_stage(1, Bare(ps)), ServerlessAnalyzer_stage(2, Bare(sa)),
      ServerlessAnalyzer_stage(3, Bare(ar)), ServerlessAnalyzer_stage(4, Raised) >> :
     ps \in {Garbage, NonObject}
               \cup {[ServerlessPsychologicalDoc EXCEPT !.v.intensity = x] :
                       x \in ReportedNumbers},
     sa \in {Garbage}
               \cup {[ServerlessSalesDoc EXCEPT !.v.performance_score = x] :
                       x \in ReportedPercents},
     ar \in {Garbage}
               \cup {[ServerlessArchetypeDoc EXCEPT !.v.confidence_score = x] :
                       x \in ReportedFractions \ {Absent}}}

\* The stress score is kept a number: classify_client_archetype computes with
\* it before the scorer reads it.
EnhancedScoreInputs ==
  {<< EnhancedSalesAnalyzer_stage(1, Bare(ps)), EnhancedSalesAnalyzer_stage(2, Bare(sa)),
      EnhancedSalesAnalyzer_stage(3, Bare(ej)), EnhancedSalesAnalyzer_stage(4, Raised),
      classify_client_archetype(EnhancedSalesAnalyzer_stage(1, Bare(ps)),
                                EnhancedSalesAnalyzer_stage(2, Bare(sa)),
                                EnhancedSalesAnalyzer_stage(3, Bare(ej))),
      EnhancedSalesAnalyzer_stage(6, Raised) >> :
     ps \in {Garbage}
               \cup {[EnhancedPsychologicalDoc EXCEPT
                        !.v.stress = st, !.v.motivation = mo,
                        !.v.big_five = [t \in BigFive |-> b]] :
                       st \in {Num(0), Num(10), Absent},
                       mo \in ReportedNumbers,
                       b \in {0, 100}},
     sa \in {Garbage}
               \cup {[EnhancedSalesDoc EXCEPT !.v.performance_score = x] :
                       x \in ReportedPercents},
     ej \in {Garbage, EnhancedJourneyDoc}}

ScoreInputs(entry) ==
  CASE entry = "marriage_analyze" -> MarriageScoreInputs
    [] entry = "analyze" -> ServerlessScoreInputs
    [] entry = "enhanced" -> EnhancedScoreInputs

LastStage(entry) ==
  CASE entry = "marriage_analyze" -> NStages
    [] entry = "analyze" -> ServerlessStages
    [] entry = "enhanced" -> EnhancedStages

ScoreStart ==
  /\ request \in {r \in Requests :
                    /\ Entry(r) = NoResponse
                    /\ r.body.text = [len |-> MinContentLen, pad |-> 0, words |-> {}]}
  /\ mock = [s \in 1..NStages |-> "any"]
  /\ store = NoRows
  /\ transcript = PlainTranscript
  /\ normalized = parse_vtt_content(PlainTranscript)
  /\ renormalized = NotNormalized
  /\ body_read = TRUE
  /\ analyzer_made = TRUE
  /\ response = NoResponse
  /\ pc = "assemble"
  /\ stage = LastStage(request.entry)
  /\ attempt = 0
  /\ waits = << >>
  /\ calls = 1
  /\ last_error = "none"
  /\ outcome = "returned"
  /\ report = NoReport
  /\ previous = NoReport
  /\ NoBatch

InitScore ==
  /\ ScoreStart
  /\ results \in ScoreInputs(request.entry)
  /\ prompt_inputs = [s \in 1..Len(results) |->
                        consumed(request.entry, s, results)]

NextScore ==
  \/ Assemble
  \/ ServerlessAssemble
  \/ EnhancedAssemble

SpecScore == InitScore /\ [][NextScore]_vars

\* ------------------------------------------------- process_transcript_batch
\* The paths are taken batch_size at a time; each readable file of a group
\* becomes an analyze_transcript task, the tasks of a group are gathered and
\* return in any order, and the next group starts when all have returned.
FileLists == UNION {[1..n -> Paths] : n \in 1..MaxFiles}

\* the payloads of a task's stages: every stage on its default, or the sales
\* analysis as the schema has it, or a profile whose big_five_personality is
\* null
TaskPayloads ==
  {<< EnhancedSalesAnalyzer_stage(1, Bare(ps)), EnhancedSalesAnalyzer_stage(2, Bare(sa)),
      EnhancedSalesAnalyzer_stage(3, Raised), EnhancedSalesAnalyzer_stage(4, Raised),
      classify_client_archetype(EnhancedSalesAnalyzer_stage(1, Bare(ps)),
                                EnhancedSalesAnalyzer_stage(2, Bare(sa)),
                                EnhancedSalesAnalyzer_stage(3, Raised)),
      EnhancedSalesAnalyzer_stage(6, Raised) >> :
     ps \in {Garbage, EnhancedPsychologicalNullTraits},
     sa \in {Garbage, EnhancedSalesDoc}}

InitStore ==
  /\ request = [entry |-> "enhanced", api_key |-> TRUE,
                body |-> Body("file", "string",
                              [len |-> MinContentLen, pad |-> 0, words |-> {}])]
  /\ mock = [s \in 1..NStages |-> "any"]
  /\ store \in {NoRows, << [OldRow EXCEPT !.filename = "x.txt"] >>}
  /\ transcript = PlainTranscript
  /\ Received
  /\ transcript_files \in FileLists
  /\ batch_start = 1
  /\ batch_tasks = << >>
  /\ last_saved = SavedIn(store)
  /\ batch_results = << >>
  /\ batch_pc = "loop"

\* for transcript_path in batch: open, read, append the task
RECURSIVE TasksOf(_)
TasksOf(batch) ==
  IF batch = << >> THEN << >>
  ELSE (IF Head(batch).readable
          THEN << [path |-> Head(batch), result |-> NoReport] >> ELSE << >>)
         \o TasksOf(Tail(batch))

\* one iteration of the loop of process_transcript_batch begins
ReadBatch ==
  /\ batch_pc = "loop"
  /\ batch_start <= Len(transcript_files)
  /\ LET last == IF batch_start + batch_size - 1 < Len(transcript_files)
                   THEN batch_start + batch_size - 1 ELSE Len(transcript_files)
     IN batch_tasks' = TasksOf(SubSeq(transcript_files, batch_start, last))
  /\ batch_start' = batch_start + batch_size
  /\ batch_pc' = "gather"
  /\ UNCHANGED << request, body_read, analyzer_made, response, pc, stage, results,
                  retry_vars, report, mock, store, vtt_vars, previous,
                  transcript_files, last_saved, batch_results, prompt_inputs >>

\* a task of the group runs analyze_transcript to its end; the save has no
\* await in it, so no other task runs between its statements
TaskReturns ==
  /\ batch_pc = "gather"
  /\ \E k \in 1..Len(batch_tasks) :
       /\ batch_tasks[k].result = NoReport
       /\ \E payloads \in TaskPayloads :
            /\ batch_tasks' =
                 [batch_tasks EXCEPT ![k].result = analyze_transcript_report(payloads)]
            /\ Saves(batch_tasks[k].path, analyze_transcript_report(payloads))
  /\ UNCHANGED << request, body_read, analyzer_made, response, pc, stage, results,
                  retry_vars, report, mock, vtt_vars, previous, transcript_files,
                  batch_start, batch_results, batch_pc, prompt_inputs >>

\* a gather that returns as soon as one task of the group has
Gathered_first ==
  /\ batch_pc = "gather"
  /\ \/ batch_tasks = << >>
     \/ \E k \in 1..Len(batch_tasks) : batch_tasks[k].result # NoReport
  /\ batch_results' =
       batch_results \o
         [k \in 1..Len(batch_tasks) |->
            [transcript_id |-> basename(batch_tasks[k].path),
             result |-> batch_tasks[k].result]]
  /\ batch_pc' = "sleep"
  /\ UNCHANGED << request, body_read, analyzer_made, response, pc, stage, results,
                  retry_vars, report, mock, store, vtt_vars, previous,
                  transcript_files, batch_start, batch_tasks, last_saved,
                  prompt_inputs >>

\* batch_results = await asyncio.gather(*batch_tasks, return_exceptions=True)
\* returns once every task of the group has; results.extend(...) keeps the
\* reports in the order of the tasks, each under the transcript_id
\* (os.path.basename(transcript_path)) analyze_transcript gave it
Gathered ==
  /\ batch_pc = "gather"
  /\ \A k \in 1..Len(batch_tasks) : batch_tasks[k].result # NoReport
  /\ batch_results' =
       batch_results \o
         [k \in 1..Len(batch_tasks) |->
            [transcript_id |-> basename(batch_tasks[k].path),
             result |-> batch_tasks[k].result]]
  /\ batch_pc' = "sleep"
  /\ UNCHANGED << request, body_read, analyzer_made, response, pc, stage, results,
                  retry_vars, report, mock, store, vtt_vars, previous,
                  transcript_files, batch_start, batch_tasks, last_saved,
                  prompt_inputs >>

\* await asyncio.sleep(2), after every group, the last one included
Pause ==
  /\ batch_pc = "sleep"
  /\ batch_pc' = "loop"
  /\ UNCHANGED << request, body_read, analyzer_made, response, pc, stage, results,
                  retry_vars, report, mock, store, vtt_vars, previous,
                  transcript_files, batch_start, batch_tasks, last_saved,
                  batch_results, prompt_inputs >>

\* return results, when range(0, len(transcript_files), batch_size) is used up
BatchReturns ==
  /\ batch_pc = "loop"
  /\ batch_start > Len(transcript_files)
  /\ batch_pc' = "returned"
  /\ UNCHANGED << request, body_read, analyzer_made, response, pc, stage, results,
                  retry_vars, report, mock, store, vtt_vars, previous,
                  transcript_files, batch_start, batch_tasks, last_saved,
                  batch_results, prompt_inputs >>

NextStore ==
  \/ ReadBatch
  \/ TaskReturns
  \/ Gathered
  \/ Pause
  \/ BatchReturns

SpecStore == InitStore /\ [][NextStore]_vars

\* --------------------------------------------- the marriage scorer's formula
\* The scorer on payloads that carry every value it reads: six category
\* scores, an urgency level of 0..10, an emotional-state label, an archetype
\* name and a confidence (in hundredths).
FormulaScores ==
  { ExampleScores, [c \in SevenCategories |-> Num(0)],
    [c \in SevenCategories |-> Num(10)] }

FormulaInputs ==
  {[s \in 1..NStages |->
      CASE s = 3 -> analyze_sales_framework(
                      Bare([FrameworkDoc EXCEPT !.v.scores = sc]))
        [] s = 5 -> analyze_marriage_coaching_specifics(Bare(MarriageWith(Num(u), e)))
        [] s = 7 -> classify_marriage_archetype(Bare(ArchetypeWith(a, Num(c))), NoText)
        [] OTHER -> RunStage(s, Raised)] :
     sc \in FormulaScores,
     u \in 0..10,
     e \in {"desperate", "hopeful", "angry", "analytical", "neutral"},
     a \in {Archetypes[i] : i \in 1..Len(Archetypes)} \cup {"Mixed Profile"},
     c \in {0, 50, 70, 100}}

InitFormula ==
  /\ ScoreStart
  /\ request.entry = "marriage_analyze"
  /\ results \in FormulaInputs
  /\ prompt_inputs = [s \in 1..Len(results) |->
                        consumed(request.entry, s, results)]

NextFormula == Assemble

SpecFormula == InitFormula /\ [][NextFormula]_vars

\* --------------------------------------------- the scorer on sparse payloads
\* calculate_marriage_success_probability on payloads that lack some of the
\* fields it reads: called by analyze_marriage_coaching_call on what the
\* stages resolved to, and called on its own with three dicts.
EmptyDict == Obj(Keys({}, "object"), [size |-> 0])

SparseFrameworks ==
  { EmptyDict, FrameworkIncomplete, FrameworkWith(Absent), FrameworkDoc,
    [FrameworkDoc EXCEPT
       !.v.scores = [c \in SevenCategories \ {"closing_strength"} |-> Num(7)]] }

SparseMarriages ==
  { EmptyDict, MarriageDoc, MarriageWith(Absent, "hopeful"),
    MarriageWith(Num(8), "numb"),
    Obj(Keys({"marriage_situation_assessment"}, "object"),
        [urgency_level |-> Num(8)]) }

SparseArchetypes ==
  { EmptyDict, ArchetypeIncomplete, ArchetypeWith("HOPEFUL BUILDER", Absent),
    ArchetypeWith("Mixed Profile", Num(90)),
    ArchetypeWith("SKEPTICAL EVALUATOR", Num(20)) }

SparseInputs ==
  {[s \in 1..NStages |->
      CASE s = 3 -> analyze_sales_framework(Bare(fw))
        [] s = 5 -> analyze_marriage_coaching_specifics(Bare(ma))
        [] s = 7 -> classify_marriage_archetype(Bare(ar), NoText)
        [] OTHER -> RunStage(s, Raised)] :
     fw \in SparseFrameworks, ma \in SparseMarriages, ar \in SparseArchetypes}

\* the scorer is entered with (sales_framework, marriage_analysis, archetype)
InitSparse ==
  \/ /\ ScoreStart
     /\ request.entry = "marriage_analyze"
     /\ results \in SparseInputs
     /\ prompt_inputs = [s \in 1..Len(results) |->
                           consumed(request.entry, s, results)]
  \/ /\ request = [entry |-> "marriage_analyze", api_key |-> TRUE,
                    body |-> Body("object", "string",
                                  [len |-> MinContentLen, pad |-> 0, words |-> {}])]
     /\ mock = [s \in 1..NStages |-> "any"]
     /\ store = NoRows
     /\ transcript = PlainTranscript
     /\ normalized = NotNormalized
     /\ renormalized = NotNormalized
     /\ body_read = FALSE
     /\ analyzer_made = TRUE
     /\ response = NoResponse
     /\ pc = "score"
     /\ stage = 0
     /\ attempt = 0
     /\ waits = << >>
     /\ calls = 0
     /\ last_error = "none"
     /\ outcome = "none"
     /\ report = NoReport
     /\ previous = NoReport
     /\ NoBatch
     /\ prompt_inputs = << >>
     /\ results \in SparseFrameworks \X SparseMarriages \X SparseArchetypes

\* calculate_marriage_success_probability returns
ScoreAlone ==
  /\ pc = "score"
  /\ report' =
       [status |-> "scored",
        success_probability |->
          calculate_marriage_success_probability(results[1], results[2], results[3])]
  /\ pc' = "done"
  /\ UNCHANGED << request, body_read, analyzer_made, response, stage, results,
                  retry_vars, mock, store, vtt_vars, previous, batch_vars,
                  prompt_inputs >>

NextSparse ==
  \/ Assemble
  \/ ScoreAlone

SpecSparse == InitSparse /\ [][NextSparse]_vars

\* ------------------------------------------------- the same input run twice
\* analyze_marriage_coaching_call is called again with the same content
\* against the same replies: its stages return the payloads they returned
\* before, and the scorer and the urgency classifier are called on them again.
Rerun ==
  /\ pc = "done"
  /\ report.status = "success"
  /\ previous = NoReport
  /\ previous' = report
  /\ report' = NoReport
  /\ response' = NoResponse
  /\ pc' = "assemble"
  /\ UNCHANGED << request, body_read, analyzer_made, stage, results, retry_vars,
                  mock, store, vtt_vars, batch_vars, prompt_inputs >>

InitTwice ==
  /\ InitScore
  /\ request.entry = "marriage_analyze"

NextTwice ==
  \/ Assemble
  \/ Rerun

SpecTwice == InitTwice /\ [][NextTwice]_vars

\* ------------------------------------------------------- two invocations
\* analyze_marriage_coaching_call assembles a report from what its stages
\* resolved to, and a second invocation assembles one from other payloads.
\* The payloads differ in what the scorer reads (the six category scores, the
\* urgency and emotional state, the archetype and its confidence) and in what
\* it does not: the seventh category, total_score and overall_grade, and the
\* five other stages, one or all resolving to a fallback or to a lost call.
CallOutcomeLost == [CallOutcomeDoc EXCEPT !.v.call_outcome = "lost"]

PairFrameworks ==
  {[FrameworkDoc EXCEPT
      !.v.scores = [c \in SevenCategories |->
                      IF c \in SixCategories THEN Num(six) ELSE Num(seventh)],
      !.v.total_score = reported[1],
      !.v.overall_grade = reported[2]] :
     six \in {4, 8}, seventh \in {2, 9}, reported \in {<< 31, "C" >>, << 60, "A" >>}}

PairOthers ==
  {[s \in {1, 2, 4, 6, 8} |-> IF s = changed THEN Garbage ELSE SchemaDoc(s)] :
     changed \in {0, 2, 4, 6, 8}}
  \cup {[s \in {1, 2, 4, 6, 8} |-> IF s = 1 THEN CallOutcomeLost ELSE SchemaDoc(s)],
        [s \in {1, 2, 4, 6, 8} |-> IF s = 1 THEN CallOutcomeLost ELSE Garbage]}

PairInputs ==
  {[s \in 1..NStages |->
      CASE s = 3 -> analyze_sales_framework(Bare(fw))
        [] s = 5 -> analyze_marriage_coaching_specifics(Bare(ma))
        [] s = 7 -> classify_marriage_archetype(Bare(ar), NoText)
        [] OTHER -> RunStage(s, Bare(others[s]))] :
     fw \in PairFrameworks,
     ma \in {MarriageDoc, MarriageWith(Num(3), "angry")},
     ar \in {ArchetypeDoc, ArchetypeWith("CONSENSUS SEEKER", Num(60))},
     others \in PairOthers}

InitPair ==
  /\ ScoreStart
  /\ request.entry = "marriage_analyze"
  /\ results \in PairInputs
  /\ prompt_inputs = [s \in 1..Len(results) |->
                        consumed(request.entry, s, results)]

\* the handler is invoked again on another transcript
SecondRun ==
  /\ pc = "done"
  /\ report.status = "success"
  /\ previous = NoReport
  /\ previous' = report
  /\ results' \in PairInputs
  /\ prompt_inputs' = [s \in 1..Len(results') |->
                         consumed(request.entry, s, results')]
  /\ report' = NoReport
  /\ response' = NoResponse
  /\ pc' = "assemble"
  /\ UNCHANGED << request, body_read, analyzer_made, stage, retry_vars,
                  mock, store, vtt_vars, batch_vars >>

NextPair ==
  \/ Assemble
  \/ SecondRun

SpecPair == InitPair /\ [][NextPair]_vars


\* =================================================================== claims
\* the payload a stage resolves to when its model-based attempt fails
StageFallback(s) ==
  CASE s = 1 -> fallback_call_outcome
    [] s = 2 -> fallback_discovery_quality
    [] s = 3 -> get_fallback_sales_framework
    [] s = 4 -> get_fallback_psychological_analysis
    [] s = 5 -> get_fallback_marriage_analysis
    [] s = 6 -> _fallback_keyword_emotional_journey(content)
    [] s = 7 -> _fallback_keyword_archetype(content)
    [] s = 8 -> get_fallback_talk_track

\* the default payload the source defines statically for a stage
StaticFallback(s) ==
  CASE s = 6 -> get_fallback_emotional_journey
    [] s = 7 -> get_fallback_archetype
    [] OTHER -> StageFallback(s)

\* the field the claims name as required for a stage
RequiredField(s) ==
  CASE s = 1 -> "call_outcome"
    [] s = 2 -> "discovery_quality_summary"
    [] s = 3 -> "framework_scores"
    [] s = 4 -> "big_five_personality"
    [] s = 5 -> "marriage_situation_assessment"
    [] s = 6 -> "emotional_journey_phases"
    [] s = 7 -> "primary_archetype"
    [] s = 8 -> "talk_track_analysis"

StageKeySet == {StageKeys[s] : s \in 1..NStages}
\* C1: once stage 1 has begun, the report returned has status 'success' and
\* carries all eight stage keys, whatever the upstream did.
C1_AlwaysSuccess ==
  (request.entry = "marriage_analyze" /\ stage >= 1 /\ report # NoReport) =>
     (report.status = "success" /\ StageKeySet \subseteq DOMAIN report)

\* the payload stage t extracts from the schema's document
ExtractedPayload(t) ==
  CASE t = 1 -> With(CallOutcomeDoc, "package_details", "object")
    [] t = 7 ->
         [json |-> "object",
          f |-> Keys({"secondary_archetype"}, "string")
                  @@ Keys({"archetype_evidence"}, "object") @@ ArchetypeDoc.f,
          v |-> [ArchetypeDoc.v EXCEPT !.secondary_archetype = "Hopeful Builder"]]
    [] OTHER -> SchemaDoc(t)

OnlyInvalid(s) ==
  /\ mock[s] = "invalid"
  /\ \A t \in 1..NStages : t # s => mock[t] = "valid"

OthersExtracted(s) ==
  \A t \in 1..NStages : t # s => report[StageKeys[t]] = ExtractedPayload(t)

\* C2 (as stated): when the upstream answers invalid text for exactly one
\* stage, that stage's payload is its statically defined fallback and every
\* other stage's payload is the one extracted from its own response.
C2_StaticFallback ==
  \A s \in 1..NStages :
     (pc = "done" /\ OnlyInvalid(s)) =>
        /\ report.status = "success"
        /\ report[StageKeys[s]] = StaticFallback(s)
        /\ OthersExtracted(s)

\* C2 (amended): the stage's payload is its static fallback, except that the
\* emotional journey and the archetype resolve to the result of their
\* keyword classifier on the transcript, which is not the static default;
\* every other stage's payload is the one extracted from its own response.
C2_FallbackIsolated ==
  \A s \in 1..NStages :
     (pc = "done" /\ OnlyInvalid(s)) =>
        /\ report.status = "success"
        /\ s \notin {6, 7} => report[StageKeys[s]] = StaticFallback(s)
        /\ s = 6 =>
             /\ report.emotional_journey = _fallback_keyword_emotional_journey(content)
             /\ report.emotional_journey # get_fallback_emotional_journey
        /\ s = 7 =>
             /\ report.archetype_analysis = _fallback_keyword_archetype(content)
             /\ report.archetype_analysis # get_fallback_archetype
        /\ OthersExtracted(s)

C2_Witness ==
  /\ pc = "done"
  /\ OnlyInvalid(4)
  /\ report.status = "success"
  /\ report.psychological_profile = get_fallback_psychological_analysis

Last(q) == q[Len(q)]

C3_Counted ==
  outcome = "returned" =>
     /\ Len(waits) < max_retries
     /\ calls = Len(waits) + 1
     /\ \A i \in 1..(Len(waits) - 1) : waits[i] <= waits[i + 1]

C3_Step ==
  (pc = "call" /\ waits # << >> /\ Len(waits') = Len(waits) + 1) =>
     /\ Last(waits') >= Last(waits)
     /\ Last(waits') = Last(waits) <=>
          (last_error = "rate_limit" /\ last_error' # "rate_limit")

C4_InClampRange ==
  (report # NoReport /\ report.status = "success") =>
     LET p == report.success_probability
     IN /\ p.t = "num"
        /\ IF request.entry = "marriage_analyze"
             THEN (15 * PScale) \div 100 <= p.n /\ p.n <= (85 * PScale) \div 100
             ELSE (10 * QScale) \div 100 <= p.n /\ p.n <= (95 * QScale) \div 100
        /\ p.n # 0
        /\ p.n # (IF request.entry = "marriage_analyze" THEN PScale ELSE QScale)

RejectedBody(r) ==
  \/ r.body.kind \in {"not_utf8", "empty", "not_json", "number", "array"}
  \/ r.body.kind = "object" /\ r.body.content \in {"missing", "null"}
  \/ r.body.kind = "object" /\ r.body.content = "string"
       /\ r.body.text.len < MinContentLen

\* C5: a request whose content is absent or shorter than 100 characters after
\* trimming, or whose body is not parseable JSON, is answered with HTTP 400
\* (the 'too short' message for short content); no analyzer is constructed
\* and no upstream call is made.
C5_Rejected400 ==
  (pc = "done" /\ request.api_key /\ RejectedBody(request)) =>
     /\ response.code = 400
     /\ request.body.content = "string" => response.error = "Content too short"
     /\ ~analyzer_made /\ calls = 0 /\ report = NoReport

\* C6: without the credential the request is answered 'API key not
\* configured' before the body is read and before any stage runs, whatever
\* the body holds; no upstream call is made.
C6_NoKeyRejected ==
  ~request.api_key =>
     /\ pc \in {"received", "done"}
     /\ ~body_read /\ ~analyzer_made /\ calls = 0 /\ stage = 0
     /\ report = NoReport
     /\ pc = "done" =>
          IF request.entry = "enhanced" THEN response # NoResponse
          ELSE response = Response(500, "API key not configured")

C6_Witness ==
  /\ pc = "done"
  /\ ~request.api_key
  /\ request.body.kind = "object" /\ request.body.content = "string"
  /\ request.body.text.len >= MinContentLen

C8_RequiredFields ==
  request.entry = "marriage_analyze" =>
    \A s \in 1..Len(results) :
       IsDict(results[s]) /\ RequiredField(s) \in DOMAIN results[s].f

\* C9: a stage that resolved to its fallback holds the required field of its
\* stage; the framework fallback holds a score for each of the seven
\* categories with a total and a grade, and the marriage fallback holds
\* marriage_coaching_elements and marriage_situation_assessment.
C9_FallbackShape ==
  request.entry = "marriage_analyze" =>
    \A s \in 1..Len(results) :
       results[s] = StageFallback(s) =>
          /\ RequiredField(s) \in DOMAIN results[s].f
          /\ s = 3 =>
               /\ DOMAIN results[s].v.scores = SevenCategories
               /\ {"total_score", "overall_grade"} \subseteq DOMAIN results[s].f
          /\ s = 5 =>
               {"marriage_coaching_elements", "marriage_situation_assessment"}
                 \subseteq DOMAIN results[s].f

\* C10: an attempt that fails with a client-side fault is the last attempt of
\* its stage: no wait and no further upstream call follows, the stage
\* resolves to its fallback and the pipeline moves on to the next stage.
C10_Step ==
  (pc = "call" /\ last_error' = "client_error") =>
     /\ calls' = calls + 1
     /\ waits' = waits
     /\ outcome' = "client_error"
     /\ results' = Append(results, StageFallback(stage))
     /\ IF stage < NStages THEN pc' = "begin" /\ stage' = stage + 1
                           ELSE pc' = "assemble"

C10_ClientFault ==
  /\ [](last_error = "client_error" => pc # "call")
  /\ [][C10_Step]_vars

C10_Witness ==
  /\ outcome = "client_error"
  /\ pc = "begin"
  /\ stage = 3
  /\ waits = << 2 >>
  /\ results[2] = fallback_discovery_quality

\* C11: when every attempt fails with a retryable fault the call makes
\* exactly max_retries upstream calls and max_retries - 1 waits (none after
\* the last attempt) and raises with the last fault as its cause; the stage
\* resolves to its fallback and the pipeline goes on.  No call of
\* _call_api_with_retry makes more than max_retries upstream calls.
C11_Exhausted ==
  /\ calls <= max_retries
  /\ outcome = "exhausted" =>
       /\ calls = max_retries
       /\ Len(waits) = max_retries - 1
       /\ last_error \in TransientFaults

C11_Step ==
  (pc = "call" /\ outcome' = "exhausted") =>
     /\ calls' = calls + 1
     /\ waits' = waits
     /\ last_error' \in TransientFaults
     /\ results' = Append(results, StageFallback(stage))
     /\ IF stage < NStages THEN pc' = "begin" /\ stage' = stage + 1
                           ELSE pc' = "assemble"

C11_RetryExhaustion == []C11_Exhausted /\ [][C11_Step]_vars

C11_Witness ==
  /\ outcome = "exhausted"
  /\ pc = "begin"
  /\ stage = 2
  /\ calls = max_retries
  /\ waits = << 2, 2 >>
  /\ last_error = "server_error"
  /\ results[1] = fallback_call_outcome

\* the blocks of non-blank lines of a transcript, in order
RECURSIVE BlocksFrom(_, _, _)
BlocksFrom(lines, i, cur) ==
  IF i > Len(lines)
    THEN IF cur = << >> THEN << >> ELSE << cur >>
  ELSE IF lines[i].k = "blank"
    THEN (IF cur = << >> THEN << >> ELSE << cur >>)
           \o BlocksFrom(lines, i + 1, << >>)
  ELSE BlocksFrom(lines, i + 1, Append(cur, lines[i]))

\* the lines of a cue from its time-range line on
CueBody(block) ==
  IF Len(block) > 1 /\ block[1].k = "digits" /\ block[2].k = "time"
    THEN Tail(block) ELSE block

\* a time-range line followed by one or more non-empty text lines
WellFormedCue(block) ==
  LET body == CueBody(block)
  IN /\ body[1].k = "time"
     /\ Len(body) >= 2
     /\ \A i \in 2..Len(body) : body[i].k # "time"

\* the header, then well-formed cues
WellFormedSubtitles(lines) ==
  /\ Len(lines) >= 1
  /\ lines[1] = MarkerLine
  /\ \A b \in 1..Len(BlocksFrom(lines, 2, << >>)) :
       WellFormedCue(BlocksFrom(lines, 2, << >>)[b])

\* '[MM:SS] <text>' of a cue: total minutes and seconds of its start, its
\* trimmed text lines joined
ExpectedLine(block) ==
  LET body == CueBody(block)
  IN Stamped(<< body[1].start[1] * 60 + body[1].start[2], body[1].start[3] >>,
             [i \in 1..(Len(body) - 1) |-> strip(body[i + 1])])

ExpectedLines(lines) ==
  LET blocks == BlocksFrom(lines, 2, << >>)
  IN [n \in 1..Len(blocks) |-> ExpectedLine(blocks[n])]

KeptText(line) == line.k \notin {"digits", "note", "marker"}

C13_Idempotent ==
  /\ (normalized # NotNormalized /\ ~starts_with_marker(transcript)) =>
        normalized = [text |-> transcript, wasTimestamped |-> FALSE]
  /\ renormalized # NotNormalized => renormalized.text = normalized.text

C13_Witness ==
  /\ normalized.wasTimestamped = TRUE
  /\ renormalized = [text |-> normalized.text, wasTimestamped |-> FALSE]
  /\ Len(normalized.text) = 2

C15_stage(e) ==
  CASE e = "desperate" -> 85 [] e = "hopeful" -> 75 [] e = "angry" -> 45
    [] e = "analytical" -> 65 [] OTHER -> 60

C15_inv(a) ==
  CASE a = "DESPERATE SAVER" -> 9 [] a = "HOPEFUL BUILDER" -> 8
    [] a = "ANALYTICAL RESEARCHER" -> 5 [] a = "SKEPTICAL EVALUATOR" -> 3
    [] a = "CONSENSUS SEEKER" -> 4 [] OTHER -> 6

\* performance in sixtieths: s1 + .. + s6
C15_performance(scores) ==
  scores["call_control"].n + scores["discovery_depth"].n
    + scores["empathetic_confrontation"].n + scores["objection_handling"].n
    + scores["value_positioning"].n + scores["closing_strength"].n

\* readiness in thousandths: 0.6 * u / 10 + 0.4 * stage(e)
C15_readiness(u, e) == 60 * u + 4 * C15_stage(e)

\* clamp(x, 0.15, 0.85) over PScale
C15_clamp(x) == IF x < 4500 THEN 4500 ELSE IF x > 25500 THEN 25500 ELSE x

\* 0.35 * performance + 0.40 * readiness + 0.15 * inv(a) + 0.10 * c over
\* PScale: 0.35/60 = 175/30000, 0.40/1000 = 12/30000, 0.15/10 = 450/30000,
\* 0.10/100 = 30/30000
C15_expected(scores, u, e, a, c) ==
  C15_clamp(175 * C15_performance(scores) + 12 * C15_readiness(u, e)
              + 450 * C15_inv(a) + 30 * c)

\* C15: the marriage scorer returns clamp(0.35*(s1+..+s6)/60 +
\* 0.40*(0.6*u/10 + 0.4*stage(e)) + 0.15*inv(a) + 0.10*c, 0.15, 0.85); the
\* scores {7,5,6,4,3,2} give performance 0.45 and, with u = 5 and a neutral
\* label, readiness 0.54.
C15_WeightedFormula ==
  /\ report.status = "success" =>
       report.success_probability =
         Num(C15_expected(results[3].v.scores,
                          results[5].v.urgency_level.n,
                          results[5].v.emotional_state,
                          results[7].v.primary_archetype,
                          results[7].v.confidence_score.n))
  /\ C15_performance(ExampleScores) * 100 = 45 * 60
  /\ C15_readiness(5, "neutral") = 540

\* the example: 0.35*0.45 + 0.40*0.54 + 0.15*0.6 + 0.10*0.5 = 0.5135
C15_Witness ==
  /\ report.status = "success"
  /\ results[3].v.scores = ExampleScores
  /\ results[5].v.urgency_level = Num(5)
  /\ results[5].v.emotional_state = "neutral"
  /\ results[7].v.primary_archetype = "Mixed Profile"
  /\ results[7].v.confidence_score = Num(50)
  /\ report.success_probability = Num(15405)

\* the emotional-journey payload holds a non-empty list of phases
HasPhases(payload) ==
  /\ KindOf(payload, "emotional_journey_phases") = "list"
  /\ payload.v.phases > 0

\* C16: the emotional-journey payload of the marriage pipeline always has a
\* non-empty sequence of phases, and it is the keyword heuristic's result
\* whenever the upstream call failed or its text yields no phases.
C16_Payload ==
  (request.entry = "marriage_analyze" /\ Len(results) >= 6) =>
     /\ HasPhases(results[6])
     /\ results[6] \in {EmotionalJourneyDoc,
                        _fallback_keyword_emotional_journey(content)}
     /\ report.status = "success" => report.emotional_journey = results[6]

C16_Step ==
  (/\ request.entry = "marriage_analyze"
   /\ pc = "call"
   /\ stage = 6
   /\ outcome' \in {"exhausted", "client_error"})
  => results' = Append(results, _fallback_keyword_emotional_journey(content))

C16_NeverEmpty == []C16_Payload /\ [][C16_Step]_vars

C16_Witness ==
  /\ request.entry = "marriage_analyze"
  /\ report.status = "success"
  /\ "crisis" \in content.words
  /\ report.emotional_journey.v.dominant_emotion = "desperate"
  /\ report.emotional_journey.v.phases = 4

\* C17: in every success report of the marriage pipeline archetype_analysis
\* names one primary archetype out of the fixed five, with a secondary
\* archetype and a confidence value.
C17_OneOfFive ==
  (request.entry = "marriage_analyze" /\ report.status = "success") =>
     /\ KindOf(report.archetype_analysis, "primary_archetype") = "string"
     /\ report.archetype_analysis.v.primary_archetype
          \in {Archetypes[i] : i \in 1..Len(Archetypes)}
     /\ KindOf(report.archetype_analysis, "secondary_archetype") = "string"
     /\ KindOf(report.archetype_analysis, "confidence_score") = "number"

\* C18: _fallback_keyword_archetype returns an archetype whose keyword score
\* is the highest of the five, HOPEFUL BUILDER when every score is zero, and
\* the confidence 0.70 whatever the scores.
C18_HighestScore ==
  (request.entry = "marriage_analyze" /\ mock[7] = "invalid" /\ Len(results) >= 7) =>
     LET payload == results[7]
         scores == archetype_scores(content)
     IN /\ payload.v.primary_archetype \in DOMAIN scores
        /\ \A a \in DOMAIN scores : scores[a] <= scores[payload.v.primary_archetype]
        /\ (\A a \in DOMAIN scores : scores[a] = 0) =>
              payload.v.primary_archetype = "HOPEFUL BUILDER"
        /\ payload.v.confidence_score = Num(70)

C18_Witness ==
  /\ content.words = {"my spouse", "looking forward"}
  /\ Len(results) >= 7
  /\ mock[7] = "invalid"
  /\ results[7].v.primary_archetype = "CONSENSUS SEEKER"
  /\ results[7].v.confidence_score = Num(70)

\* C19: enhanced_clients holds at most one row per filename, and the row of
\* a filename holds the summary columns and the report of the latest save of
\* a successful analysis of that filename that committed.
C19_OneRowPerFilename ==
  /\ \A i, j \in 1..Len(store) : store[i].filename = store[j].filename => i = j
  /\ \A i \in 1..Len(store) :
       /\ last_saved[store[i].filename] # NoReport
       /\ store[i].complete_analysis = last_saved[store[i].filename]
       /\ store[i].complete_analysis.status = "success"
       /\ store[i].success_probability =
            store[i].complete_analysis.success_probability
  /\ \A fn \in Filenames :
       last_saved[fn] # NoReport => \E i \in 1..Len(store) : store[i].filename = fn

\* two files of the same name were analyzed in one group, both saves
\* committed, and the row is the later one's
C19_Witness ==
  /\ Len(batch_tasks) = 2
  /\ batch_tasks[1].path = Path("a", "x.txt", TRUE)
  /\ batch_tasks[2].path = Path("b", "x.txt", TRUE)
  /\ batch_tasks[1].result.status = "success"
  /\ batch_tasks[2].result.status = "success"
  /\ batch_tasks[1].result # batch_tasks[2].result
  /\ Len(store) = 1
  /\ store[1].complete_analysis = batch_tasks[1].result
  /\ store[1].filename = "x.txt"

\* C20: every report EnhancedSalesAnalyzer.analyze_transcript returns has
\* status 'success' and carries psychological_profile, sales_performance,
\* archetype_analysis, coaching_recommendations and success_probability.
C20_EnhancedAlwaysSuccess ==
  (request.entry = "enhanced" /\ report # NoReport) =>
     /\ report.status = "success"
     /\ {"psychological_profile", "sales_performance", "archetype_analysis",
         "coaching_recommendations", "success_probability"} \subseteq DOMAIN report

\* C21: call metadata supplied with a request appears unchanged in the
\* report's call_metadata; an extracted name never replaces a supplied one.
C21_MetadataKept ==
  (/\ request.entry = "marriage_analyze"
   /\ report.status = "success"
   /\ "metadata" \in DOMAIN request.body)
  => \A field \in DOMAIN request.body.metadata :
       request.body.metadata[field] # None =>
         report.call_metadata[field] = request.body.metadata[field]


\* the stages whose output a stage's prompt consumes
C22_Consumes(entry, s) ==
  CASE entry = "marriage_analyze" /\ s = 3 -> << 2 >>
    [] entry = "marriage_analyze" /\ s = 8 -> << 3, 5 >>
    [] entry = "analyze" /\ s = 3 -> << 1, 2 >>
    [] entry = "analyze" /\ s = 4 -> << 1, 2, 3 >>
    [] OTHER -> << >>

\* the report field that carries a stage's payload
C22_Field(entry, s) ==
  IF entry = "marriage_analyze"
    THEN << "call_outcome", "discovery_quality", "sales_framework_analysis",
            "psychological_profile", "marriage_coaching_analysis",
            "emotional_journey", "archetype_analysis",
            "talk_track_improvements" >>[s]
    ELSE << "psychological_profile", "sales_performance", "archetype_analysis",
            "coaching_recommendations" >>[s]

\* C22: within one invocation of the marriage pipeline or of
\* ServerlessAnalyzer, the prompt of a stage that consumes earlier stages'
\* output is built when each consumed stage has already resolved, from exactly
\* the payload that stage resolved to, which is also the payload a success
\* report carries for that stage
C22_ResolvedInputs ==
  request.entry \in {"marriage_analyze", "analyze"} =>
    \A s \in 1..Len(prompt_inputs) :
      LET deps == C22_Consumes(request.entry, s)
      IN /\ Len(prompt_inputs[s]) = Len(deps)
         /\ \A k \in 1..Len(deps) :
              /\ deps[k] <= Len(results)
              /\ prompt_inputs[s][k] = results[deps[k]]
              /\ report.status = "success" =>
                   prompt_inputs[s][k] = report[C22_Field(request.entry, deps[k])]

\* a success report of the marriage pipeline whose framework scoring and
\* marriage-specific stages returned the model's own documents, both read by
\* the talk-track prompt
C22_Witness ==
  /\ request.entry = "marriage_analyze"
  /\ report.status = "success"
  /\ Len(prompt_inputs) = 8
  /\ prompt_inputs[8] = << results[3], results[5] >>
  /\ results[3] # get_fallback_sales_framework
  /\ results[5] # get_fallback_marriage_analysis


\* the wait the schedule gives after failed attempt i (0-based) of a kind
C23_Schedule(kind, i) == IF kind = "rate_limit" THEN 2 * (2 ^ i) ELSE 2 ^ i

C23_Waited ==
  (pc = "call" /\ Len(waits') = Len(waits) + 1) =>
     /\ attempt < max_retries - 1
     /\ attempt' = attempt + 1
     /\ last_error' \in TransientFaults
     /\ waits'[Len(waits')] = C23_Schedule(last_error', attempt)
     /\ SubSeq(waits', 1, Len(waits)) = waits

\* C23: in _call_api_with_retry the wait after failed attempt i (0-based,
\* i < max_retries - 1) is 2 * 2^i seconds after a rate limit and 2^i seconds
\* after a timeout, a server fault or any other fault; it is a function of the
\* attempt number and of the kind of the latest failure only, and the last
\* attempt is followed by no wait.
C23_Backoff ==
  /\ [](\A i \in 1..Len(waits) :
          waits[i] \in {C23_Schedule("rate_limit", i - 1),
                        C23_Schedule("timeout", i - 1)})
  /\ [](Len(waits) = attempt /\ attempt <= max_retries - 1)
  /\ [][C23_Waited]_vars

\* a rate limit on the first attempt and a timeout on the second: both waits
\* are two seconds
C23_Witness ==
  /\ pc = "call"
  /\ attempt = 2
  /\ waits = << 2, 2 >>
  /\ last_error = "timeout"


\* C24: in every stage of the marriage pipeline, a reply that is one valid
\* JSON object inside a code fence (with or without the json tag) or with
\* commentary before or after it resolves to the payload the bare object
\* resolves to, never to the stage's fallback
C24_DressedAccepted ==
  request.entry = "marriage_analyze" =>
    \A s \in 1..Len(results) :
      mock[s] \in Dressed =>
        /\ results[s] =
             RunStage(s, Returned(Text(FALSE, "none", FALSE, SchemaDoc(s))))
        /\ results[s] # StageFallback(s)


\* the tier the thresholds give a probability held over PScale
C25_Tier(n) ==
  IF n >= (75 * PScale) \div 100 THEN "URGENT"
  ELSE IF n >= (60 * PScale) \div 100 THEN "STANDARD"
  ELSE "LOW"

C25_Actions(tier) ==
  CASE tier = "URGENT" ->
         << "Review call recording immediately",
            "Identify specific missed closing opportunities",
            "Schedule coaching session within 24 hours",
            "Prepare follow-up strategy for prospect" >>
    [] tier = "STANDARD" ->
         << "Include in weekly coaching review",
            "Analyze for skill development opportunities",
            "Note patterns for group coaching sessions" >>
    [] tier = "LOW" ->
         << "Review lead qualification process",
            "Assess if prospect was properly qualified",
            "Focus coaching on discovery and qualification skills" >>

\* C25: the coaching_assessment of a marriage report is one of the three
\* tiers: URGENT when the report's success_probability p >= 0.75, STANDARD
\* when 0.60 <= p < 0.75, LOW when p < 0.60; immediate_coaching_needed is true
\* exactly in the URGENT tier and recommended_actions is the tier's fixed list
C25_TierOfOwnProbability ==
  (request.entry = "marriage_analyze" /\ report.status = "success") =>
     LET p == report.success_probability
         a == report.coaching_assessment
     IN /\ a.coaching_priority \in {"URGENT", "STANDARD", "LOW"}
        /\ p.t = "num" => a.coaching_priority = C25_Tier(p.n)
        /\ a.immediate_coaching_needed <=> a.coaching_priority = "URGENT"
        /\ a.recommended_actions = C25_Actions(a.coaching_priority)

\* a report whose probability is 0.75 and is assessed URGENT
C25_Witness ==
  /\ request.entry = "marriage_analyze"
  /\ report.status = "success"
  /\ report.success_probability = Num(22500)
  /\ report.coaching_assessment.coaching_priority = "URGENT"
  /\ report.coaching_assessment.immediate_coaching_needed


RECURSIVE C26_Sum(_, _)
C26_Sum(scores, categories) ==
  IF categories = {} THEN 0
  ELSE LET c == CHOOSE x \in categories : TRUE
       IN scores[c].n + C26_Sum(scores, categories \ {c})

\* C26: in every success report of the marriage pipeline,
\* sales_framework_analysis carries framework_scores with a numeric score per
\* category and a total_score equal to the sum of those scores
C26_TotalIsSum ==
  (request.entry = "marriage_analyze" /\ report.status = "success") =>
     LET framework == report.sales_framework_analysis
     IN /\ IsDict(framework)
        /\ KindOf(framework, "framework_scores") = "object"
        /\ \A c \in DOMAIN framework.v.scores : framework.v.scores[c].t = "num"
        /\ framework.v.total_score =
             C26_Sum(framework.v.scores, DOMAIN framework.v.scores)


\* the stages of an entry point that consume no other stage's output and are
\* named as running side by side
C27_Independent(entry) ==
  CASE entry = "marriage_analyze" -> 4..7
    [] entry = "enhanced" -> 1..4
    [] OTHER -> {}

\* the stage's call has been started / the stage has resolved to its payload
C27_Started(s) == Len(prompt_inputs) >= s
C27_Resolved(s) == Len(results) >= s

\* C27: within one analysis the stages without mutual data dependency run
\* concurrently: the call of each of them has been started by the time any of
\* them resolves, so that their upstream calls overlap; and a stage that
\* consumes other stages starts only after those have resolved
C27_FanOut ==
  /\ \A s \in C27_Independent(request.entry), t \in C27_Independent(request.entry) :
       C27_Resolved(s) => C27_Started(t)
  /\ \A s \in 1..Len(prompt_inputs) :
       \A k \in 1..Len(C22_Consumes(request.entry, s)) :
         C27_Resolved(C22_Consumes(request.entry, s)[k])


\* the analyses started and not yet returned
C28_InFlight ==
  {k \in 1..Len(batch_tasks) :
     batch_pc = "gather" /\ batch_tasks[k].result = NoReport}

C28_Readable(files) == SelectSeq(files, LAMBDA f : f.readable)

\* the files of the group being analyzed: batch_size consecutive files, or
\* what is left of the list
C28_Group ==
  SubSeq(transcript_files, batch_start - batch_size,
         IF batch_start - 1 < Len(transcript_files)
           THEN batch_start - 1 ELSE Len(transcript_files))

C28_Bounded ==
  /\ Cardinality(C28_InFlight) <= batch_size
  /\ Len(batch_tasks) <= batch_size
  /\ (batch_start - 1) % batch_size = 0
  /\ batch_pc \in {"gather", "sleep"} =>
       [k \in 1..Len(batch_tasks) |-> batch_tasks[k].path] = C28_Readable(C28_Group)
  /\ batch_pc = "returned" =>
       /\ [k \in 1..Len(batch_results) |-> batch_results[k].transcript_id]
            = [k \in 1..Len(C28_Readable(transcript_files)) |->
                 basename(C28_Readable(transcript_files)[k])]
       /\ \A k \in 1..Len(batch_results) : batch_results[k].result # NoReport

C28_Step ==
  /\ (batch_pc' = "gather" /\ batch_pc # "gather") =>
        /\ batch_pc = "loop"
        /\ \A k \in 1..Len(batch_tasks) : batch_tasks[k].result # NoReport
        /\ batch_start' = batch_start + batch_size
  /\ (batch_pc' = "loop" /\ batch_pc # "loop") => batch_pc = "sleep"
  /\ (batch_pc' = "sleep" /\ batch_pc # "sleep") =>
        /\ batch_pc = "gather"
        /\ C28_InFlight = {}
  /\ batch_tasks' # batch_tasks =>
        \/ batch_pc = "loop" /\ batch_pc' = "gather"
        \/ /\ batch_pc = "gather" /\ batch_pc' = "gather"
           /\ Len(batch_tasks') = Len(batch_tasks)
           /\ \A k \in 1..Len(batch_tasks) :
                /\ batch_tasks'[k].path = batch_tasks[k].path
                /\ batch_tasks[k].result # NoReport =>
                     batch_tasks'[k] = batch_tasks[k]

\* C28: process_transcript_batch analyses the files in consecutive groups of
\* at most batch_size; the analyses of a group are in flight together and at
\* most batch_size are in flight at any time; a group starts only when every
\* analysis of the group before has returned and the pause after it has
\* elapsed; the function returns one result per readable file, in the order
\* of the files, unreadable files being skipped
C28_Groups == []C28_Bounded /\ [][C28_Step]_vars

\* three files in two groups, the second file unreadable: the batch returned
\* two results
C28_Witness ==
  /\ batch_pc = "returned"
  /\ Len(transcript_files) = 3
  /\ ~transcript_files[2].readable
  /\ Len(batch_results) = 2
  /\ batch_results[1].transcript_id = basename(transcript_files[1])
  /\ batch_results[2].transcript_id = basename(transcript_files[3])


C29_Kept ==
  (request.entry = "marriage_analyze" /\ report.status = "success") =>
     /\ Len(prompt_inputs) = NStages
     /\ report.sales_framework_analysis = prompt_inputs[NStages][1]
     /\ report.marriage_coaching_analysis = prompt_inputs[NStages][2]
     /\ report.success_probability =
          calculate_marriage_success_probability(
            prompt_inputs[NStages][1], prompt_inputs[NStages][2],
            report.archetype_analysis)

C29_Step ==
  (request.entry = "marriage_analyze" /\ stage = NStages /\ Len(results) >= 7) =>
     /\ results'[3] = results[3]
     /\ results'[5] = results[5]

\* C29: the talk-track stage leaves the earlier payloads as they were: no
\* step taken while it runs changes the framework scoring or the
\* marriage-specific payload, the sales_framework_analysis and
\* marriage_coaching_analysis of a success report are the payloads the
\* talk-track prompt was handed when the stage started, and success_probability
\* is the scorer's value for those same payloads
C29_Additive == []C29_Kept /\ [][C29_Step]_vars

\* a success report whose talk-track stage returned the model's own document
\* after reading the model's own framework scores
C29_Witness ==
  /\ request.entry = "marriage_analyze"
  /\ report.status = "success"
  /\ report.talk_track_improvements # get_fallback_talk_track
  /\ report.sales_framework_analysis # get_fallback_sales_framework
  /\ IsDict(report.sales_framework_analysis)
  /\ KindOf(report.sales_framework_analysis, "framework_scores") = "object"


\* the three dicts the scorer was given
C30_Args ==
  IF Len(results) = 3 THEN results ELSE << results[3], results[5], results[7] >>

C30_Category(framework, c) ==
  IF KindOf(framework, "framework_scores") = "object"
       /\ c \in DOMAIN framework.v.scores
    THEN framework.v.scores[c].n ELSE 5

C30_Factors(marriage) ==
  KindOf(marriage, "marriage_situation_assessment") = "object"

C30_Urgency(marriage) ==
  IF C30_Factors(marriage) /\ marriage.v.urgency_level.t = "num"
    THEN marriage.v.urgency_level.n ELSE 5

\* in hundredths: the table's value for a recognised label, 0.6 otherwise
C30_Stage(marriage) ==
  IF C30_Factors(marriage) /\ "emotional_state" \in DOMAIN marriage.v
    THEN C15_stage(marriage.v.emotional_state) ELSE 60

\* in tenths: the table's value for a recognised archetype, 0.6 otherwise
C30_Investment(archetype) ==
  IF KindOf(archetype, "primary_archetype") = "string"
    THEN C15_inv(archetype.v.primary_archetype) ELSE 6

\* in hundredths
C30_Confidence(archetype) ==
  IF KindOf(archetype, "confidence_score") = "number"
    THEN archetype.v.confidence_score.n ELSE 50

C30_Expected(framework, marriage, archetype) ==
  C15_clamp(175 * (C30_Category(framework, "call_control")
                     + C30_Category(framework, "discovery_depth")
                     + C30_Category(framework, "empathetic_confrontation")
                     + C30_Category(framework, "objection_handling")
                     + C30_Category(framework, "value_positioning")
                     + C30_Category(framework, "closing_strength"))
              + 720 * C30_Urgency(marriage) + 48 * C30_Stage(marriage)
              + 450 * C30_Investment(archetype)
              + 30 * C30_Confidence(archetype))

\* C30: on payloads that lack fields the scorer reads,
\* calculate_marriage_success_probability returns the weighted formula with 5
\* for each absent category score, 5 for an absent urgency, 0.6 for an absent
\* or unrecognised emotional-state label, 0.6 for an absent or unrecognised
\* archetype and 0.5 for an absent confidence, every field that is present
\* keeping its own value; it does not take its exception branch, the
\* invocation that called it reports success, and three empty dicts give
\* 0.531
C30_Defaulted ==
  /\ pc = "done" => report.status \in {"success", "scored"}
  /\ report.status \in {"success", "scored"} =>
       report.success_probability =
         Num(C30_Expected(C30_Args[1], C30_Args[2], C30_Args[3]))
  /\ C30_Expected(EmptyDict, EmptyDict, EmptyDict) * 1000 = 531 * PScale

\* the scorer called with three empty dicts returned 0.531
C30_Witness ==
  /\ results = << EmptyDict, EmptyDict, EmptyDict >>
  /\ report.status = "scored"
  /\ report.success_probability = Num(15930)


\* a line that is kept as cue text once trimmed
C31_IsText(raw) == strip(raw).k \notin {"blank", "marker", "digits", "time", "note"}

\* no time-range line, or no text after a time-range line
C31_NoCueText(lines) ==
  ~\E i \in 1..Len(lines) : \E j \in (i + 1)..Len(lines) :
      strip(lines[i]).k = "time" /\ C31_IsText(lines[j])

\* C31: for an input that begins with the WEBVTT marker and holds no
\* time-range line, or no text after one, parse_vtt_content returns the
\* original text unmodified with wasTimestamped false
C31_OriginalWhenEmpty ==
  (/\ normalized # NotNormalized
   /\ starts_with_marker(transcript)
   /\ C31_NoCueText(transcript))
  => normalized = [text |-> transcript, wasTimestamped |-> FALSE]

\* a subtitle file whose only cue has a numeric line and no text
C31_Witness ==
  /\ transcript = << MarkerLine, BlankLine, TimeRange(<< 0, 0, 1, 900 >>),
                     DigitsLine >>
  /\ normalized = [text |-> transcript, wasTimestamped |-> FALSE]


\* the number of an archetype's trigger phrases that occur in the text
C32_Hits(a) == Cardinality(archetype_keywords[a] \cap content.words)

\* C32: _fallback_keyword_archetype scores each archetype by the number of
\* its trigger phrases that occur in the lower-cased text, so the archetype
\* it selects is never one with fewer hits than another archetype has
C32_HitCount ==
  (request.entry = "marriage_analyze" /\ mock[7] = "invalid" /\ Len(results) >= 7) =>
     \A a \in DOMAIN archetype_keywords :
        C32_Hits(a) <= C32_Hits(results[7].v.primary_archetype)


C33_Scoped ==
  (request.entry = "marriage_analyze" /\ pc = "call") =>
     /\ attempt = calls
     /\ Len(waits) = attempt
     /\ attempt < max_retries

C33_Entry ==
  (request.entry = "marriage_analyze" /\ pc = "begin" /\ pc' = "call") =>
     /\ attempt' = 0
     /\ calls' = 0
     /\ waits' = << >>
     /\ last_error' = "none"

C34_InFlight == Len(prompt_inputs) - Len(results)

C34_OneAtATime ==
  request.entry = "marriage_analyze" =>
     /\ C34_InFlight \in {0, 1}
     /\ C34_InFlight = 1 <=> pc = "call"
     /\ Len(prompt_inputs) <= NStages
     /\ calls <= max_retries
     /\ pc \in {"begin", "call"} => Len(results) = stage - 1
     /\ report.status = "success" => Len(results) = NStages

C34_InOrder ==
  request.entry = "marriage_analyze" =>
     /\ Len(prompt_inputs') # Len(prompt_inputs) =>
          /\ Len(prompt_inputs') = Len(prompt_inputs) + 1
          /\ Len(prompt_inputs') = stage
          /\ calls' = 0
     /\ Len(results') # Len(results) =>
          /\ results' = Append(results, results'[Len(results')])
          /\ Len(results') = stage
          /\ results'[stage] \in
               {RunStage(stage, Returned(text)) :
                  text \in MockTexts(stage, mock[stage])}
                 \cup {StageFallback(stage)}
     /\ calls' # calls => calls' = calls + 1 \/ Len(prompt_inputs') = Len(prompt_inputs) + 1

\* C34: one invocation of analyze_marriage_coaching_call starts its eight
\* stages one at a time in the order outcome, discovery, framework,
\* psychological, marriage-specific, emotional journey, archetype, talk-track,
\* each after the one before has resolved; at most one upstream call is in
\* flight; each stage is entered once and makes at most max_retries calls, at
\* most 8 * max_retries in all; and when every upstream call returns or fails
\* the invocation comes to its end
C34_Sequential ==
  /\ []C34_OneAtATime
  /\ [][C34_InOrder]_vars
  /\ <>(pc = "done")

\* the last stage used up its attempts and the invocation ended with a report
C34_Witness ==
  /\ pc = "done"
  /\ report.status = "success"
  /\ outcome = "exhausted"
  /\ calls = max_retries
  /\ Len(prompt_inputs) = NStages
  /\ results[NStages] = get_fallback_talk_track

\* C35: when every upstream call of every stage fails or returns text that is
\* not JSON, the report has status 'success', every stage field holds that
\* stage's fallback, the success probability is 0.461 plus 0.015 times the
\* investment value of the archetype the keyword classifier chose, that is
\* one of 0.506, 0.521, 0.536, 0.581 and 0.596 and so below 0.60, and the
\* coaching assessment is the LOW tier with immediate_coaching_needed false.
C35_Values == { 15180, 15630, 16080, 17430, 17880 }

C35_AllDown ==
  pc = "done" =>
     /\ report.status = "success"
     /\ report.archetype_analysis.v.primary_archetype \in
          { "DESPERATE SAVER", "ANALYTICAL RESEARCHER", "SKEPTICAL EVALUATOR",
            "CONSENSUS SEEKER", "HOPEFUL BUILDER" }
     /\ report.archetype_analysis.v.confidence_score = Num(70)
     /\ report.success_probability =
          Num(13830 + 450 * investment_psychology(
                               report.archetype_analysis.v.primary_archetype))
     /\ report.success_probability.n \in C35_Values
     /\ report.success_probability.n < (60 * PScale) \div 100
     /\ report.coaching_assessment.coaching_priority = "LOW"
     /\ report.coaching_assessment.immediate_coaching_needed = FALSE

\* a report made after the last stage's calls all failed, on a transcript the
\* keyword classifier reads as a skeptical evaluator: 0.506
C35_Witness ==
  /\ pc = "done"
  /\ outcome = "exhausted"
  /\ calls = max_retries
  /\ report.status = "success"
  /\ report.archetype_analysis.v.primary_archetype = "SKEPTICAL EVALUATOR"
  /\ report.success_probability = Num(15180)
\* what the scorer reads of a report's payloads
C36_Read(r) ==
  << [c \in SixCategories |-> r.sales_framework_analysis.v.scores[c]],
     r.marriage_coaching_analysis.v.urgency_level,
     r.marriage_coaching_analysis.v.emotional_state,
     r.archetype_analysis.v.primary_archetype,
     r.archetype_analysis.v.confidence_score >>

\* what the claim lets two runs differ in
C36_Unread(r) ==
  << r.call_outcome, r.discovery_quality, r.psychological_profile,
     r.emotional_journey, r.talk_track_improvements,
     r.sales_framework_analysis.v.scores["relationship_dynamics_education"],
     r.sales_framework_analysis.v.total_score,
     r.sales_framework_analysis.v.overall_grade >>

C36_TwoReports ==
  /\ pc = "done"
  /\ previous # NoReport
  /\ report.status = "success"

\* C36: two reports of the marriage pipeline whose payloads agree on the six
\* original category scores, the urgency level, the emotional state, the
\* primary archetype and its confidence have the same success probability
\* and the same coaching assessment, whatever the call outcome, the
\* discovery payload, the psychological profile, the emotional journey, the
\* talk-track payload, the relationship_dynamics_education score, total_score
\* and overall_grade are.
C36_ReadOnly ==
  (C36_TwoReports /\ C36_Read(report) = C36_Read(previous)) =>
     /\ report.success_probability = previous.success_probability
     /\ report.coaching_assessment = previous.coaching_assessment

\* two reports that agree on what is read and differ in every payload and
\* field that is not
C36_Witness ==
  /\ C36_TwoReports
  /\ C36_Read(report) = C36_Read(previous)
  /\ \A i \in 1..8 : C36_Unread(report)[i] # C36_Unread(previous)[i]
  /\ report.success_probability = previous.success_probability
\* C37 (as stated): in EnhancedSalesAnalyzer, once the emotional-journey
\* stage has resolved to its default payload, classify_client_archetype
\* returns 'Mixed Profile' with confidence 0.5 whatever the psychological
\* profile holds, and the report analyze_transcript returns has status
\* 'success'.  Read here on the runs whose sales analysis is a JSON object,
\* so that only the psychological profile is left to differ.
C37_DefaultJourney ==
  (/\ request.entry = "enhanced"
   /\ Len(results) >= 5
   /\ IsDict(results[2])
   /\ results[3] = get_default_emotional_analysis)
  => /\ results[5].v.primary_archetype = "Mixed Profile"
     /\ results[5].v.confidence_score = Num(500)
     /\ report # NoReport => report.status = "success"
\* C38: in EnhancedSalesAnalyzer.analyze_transcript no stage reads or writes
\* the store: each payload is what the stage makes of an upstream reply or
\* of the earlier payloads, and the report is compiled from the payloads
\* alone.  The store changes in the one step that ends a successful analysis,
\* after all six payloads are there, by the upsert of that report's row; a
\* save that fails leaves the store as it was and the report as compiled,
\* with status 'success'; an analysis that ends 'failed' leaves every row as
\* it was.
C38_Step ==
  request.entry = "enhanced" =>
     /\ results' # results =>
          /\ store' = store
          /\ report' = report
          /\ results' = Append(results, results'[Len(results')])
          /\ results'[Len(results')] \in
               IF stage = 5
                 THEN {classify_client_archetype(results[1], results[2], results[3])}
               ELSE {EnhancedSalesAnalyzer_stage(stage, reply) :
                       reply \in EnhancedReplies(stage)}
     /\ report' # report =>
          /\ pc' = "done"
          /\ results' = results
          /\ IF report'.status = "failed"
               THEN store' = store
             ELSE /\ pc = "assemble"
                  /\ Len(results) = EnhancedStages
                  /\ report' = analyze_transcript_report(results)
                  /\ report'.status = "success"
                  /\ store' \in {store,
                                 insert_or_replace(store, Row(TranscriptPath, report'))}
     /\ store' # store => report' # report /\ report'.status = "success"

C38_StoreAfterReport == [][C38_Step]_vars

\* a successful analysis whose save failed: the report is returned and the
\* row of an earlier run is as it was
C38_Witness ==
  /\ request.entry = "enhanced"
  /\ pc = "done"
  /\ report.status = "success"
  /\ report = analyze_transcript_report(results)
  /\ store = << OldRow >>
  /\ report # OldRow.complete_analysis
====
